---- MODULE Spec2Model ----
(***************************************************************************)
(* Model of mcp-compute-scout's resource-checking engine:                  *)
(*   src/src/mcp_compute_scout/server_checker.py  (ServerChecker)          *)
(*   src/src/mcp_compute_scout/parsers.py         (metric parsers)         *)
(*   src/src/mcp_compute_scout/config.py          (ServerConfig, Config)   *)
(*                                                                         *)
(* Text is a sequence of one-character strings.  A character is any       *)
(* Unicode character that a string of this module can hold: the ASCII      *)
(* characters and the characters whose code point ends in a byte of 80 to  *)
(* FF (hexadecimal).  An optional value (Python's None or a value) is a    *)
(* sequence of length 0 or 1.  A Python dict is a function whose DOMAIN is *)
(* the set of keys present.  A Python int is a sign and a magnitude of any *)
(* size, a Python float is an IEEE 754 double.                             *)
(***************************************************************************)
EXTENDS Integers, Sequences, FiniteSets, TLC

VARIABLES
    config,   \* self.config: servers (the host list) and gpu_processes (is the command configured)
    now,      \* time.time(), in ticks
    cache,    \* self._cache: host name -> snapshot
    tasks,    \* every check_server coroutine created so far, in creation order
    calls,    \* every check_servers / find_best_server call made so far
    queue     \* the executor's work queue: tasks waiting for a worker thread

vars == <<config, now, cache, tasks, calls, queue>>

(***************************************************************************)
(* Optional values and dict access                                         *)
(***************************************************************************)
None == <<>>

Some(v) == <<v>>

\* dict.get(k) / dict.get(k, default): the default only when the key is absent
Get(d, k, default) == IF k \in DOMAIN d THEN d[k] ELSE default

\* d[k] = v on a dict
Put(d, k, v) == [x \in DOMAIN d \cup {k} |-> IF x = k THEN v ELSE d[x]]

(***************************************************************************)
(* Text helpers (str.strip, str.rstrip, str.split, re.split, str.lower)    *)
(***************************************************************************)
Digits == {"0", "1", "2", "3", "4", "5", "6", "7", "8", "9"}

DigitVal(c) ==
    CASE c = "0" -> 0 [] c = "1" -> 1 [] c = "2" -> 2 [] c = "3" -> 3
      [] c = "4" -> 4 [] c = "5" -> 5 [] c = "6" -> 6 [] c = "7" -> 7
      [] c = "8" -> 8 [] c = "9" -> 9

\* the control characters U+000B and U+001C to U+001F
VT == ""
FS == ""
GS == ""
RS == ""
US == ""

\* the characters of str.isspace() beyond ASCII: U+0085, U+00A0 and U+1680
\* (the others, U+2000 to U+200A, U+2028, U+2029, U+202F, U+205F and
\* U+3000, are no characters of this module)
UnicodeSpace == {"", " ", " "}

\* the characters the parsers of int() and float() skip at both ends of
\* their text
NumberSpace == {" ", "\t", "\n", "\r", "\f", VT}

\* the characters of str.isspace(): what str.strip() removes and \s matches
Whitespace == NumberSpace \cup {FS, GS, RS, US} \cup UnicodeSpace

\* the decimal digits 0 to 9 of the scripts other than ASCII: Extended
\* Arabic-Indic, NKo, Bengali, Gujarati, Tamil, Kannada, Sinhala Lith, Lao,
\* Myanmar Shan, Khmer, New Tai Lue, Tai Tham Hora, Tai Tham Tham,
\* Sundanese, Saurashtra, Javanese, Myanmar Tai Laing, Meetei Mayek
DecimalRows ==
    {
     <<"۰", "۱", "۲", "۳", "۴", "۵", "۶", "۷", "۸", "۹">>,
     <<"߀", "߁", "߂", "߃", "߄", "߅", "߆", "߇", "߈", "߉">>,
     <<"০", "১", "২", "৩", "৪", "৫", "৬", "৭", "৮", "৯">>,
     <<"૦", "૧", "૨", "૩", "૪", "૫", "૬", "૭", "૮", "૯">>,
     <<"௦", "௧", "௨", "௩", "௪", "௫", "௬", "௭", "௮", "௯">>,
     <<"೦", "೧", "೨", "೩", "೪", "೫", "೬", "೭", "೮", "೯">>,
     <<"෦", "෧", "෨", "෩", "෪", "෫", "෬", "෭", "෮", "෯">>,
     <<"໐", "໑", "໒", "໓", "໔", "໕", "໖", "໗", "໘", "໙">>,
     <<"႐", "႑", "႒", "႓", "႔", "႕", "႖", "႗", "႘", "႙">>,
     <<"០", "១", "២", "៣", "៤", "៥", "៦", "៧", "៨", "៩">>,
     <<"᧐", "᧑", "᧒", "᧓", "᧔", "᧕", "᧖", "᧗", "᧘", "᧙">>,
     <<"᪀", "᪁", "᪂", "᪃", "᪄", "᪅", "᪆", "᪇", "᪈", "᪉">>,
     <<"᪐", "᪑", "᪒", "᪓", "᪔", "᪕", "᪖", "᪗", "᪘", "᪙">>,
     <<"᮰", "᮱", "᮲", "᮳", "᮴", "᮵", "᮶", "᮷", "᮸", "᮹">>,
     <<"꣐", "꣑", "꣒", "꣓", "꣔", "꣕", "꣖", "꣗", "꣘", "꣙">>,
     <<"꧐", "꧑", "꧒", "꧓", "꧔", "꧕", "꧖", "꧗", "꧘", "꧙">>,
     <<"꧰", "꧱", "꧲", "꧳", "꧴", "꧵", "꧶", "꧷", "꧸", "꧹">>,
     <<"꯰", "꯱", "꯲", "꯳", "꯴", "꯵", "꯶", "꯷", "꯸", "꯹">>
    }

\* the ASCII digit of every such digit
DecimalOf ==
    [c \in UNION {{row[i] : i \in 1..10} : row \in DecimalRows} |->
        CHOOSE d \in Digits : \E row \in DecimalRows : row[DigitVal(d) + 1] = c]

\* what int() and float() make of their text before they parse it: a space
\* of every Unicode space and the ASCII digit of every Unicode decimal
\* digit.  Every other character stays; the program puts a "?" for those
\* beyond ASCII, which is no part of a number either.
ToAscii(text) ==
    [i \in 1..Len(text) |->
        IF text[i] \in UnicodeSpace THEN " "
        ELSE IF text[i] \in DOMAIN DecimalOf THEN DecimalOf[text[i]]
        ELSE text[i]]

\* str.lstrip(chars): s from its first character that is not in chars (v is
\* the value of s)
LStrip(s, chars) ==
    CHOOSE r \in {IF \A i \in 1..Len(v) : v[i] \in chars THEN <<>>
                  ELSE SubSeq(v, CHOOSE i \in 1..Len(v) :
                                    v[i] \notin chars /\ \A j \in 1..(i - 1) : v[j] \in chars,
                              Len(v))
                  : v \in {s}} : TRUE

\* str.rstrip(chars): s up to its last character that is not in chars
RStrip(s, chars) ==
    CHOOSE r \in {IF \A i \in 1..Len(v) : v[i] \in chars THEN <<>>
                  ELSE SubSeq(v, 1, CHOOSE i \in 1..Len(v) :
                                       v[i] \notin chars
                                       /\ \A j \in (i + 1)..Len(v) : v[j] \in chars)
                  : v \in {s}} : TRUE

\* str.strip()
Strip(s) == RStrip(LStrip(s, Whitespace), Whitespace)

\* str.split(sep) for a one-character separator: the pieces between the
\* separators, one more than there are separators; "" splits to [""]
Split(s, sep) ==
    LET at == {i \in 1..Len(s) : s[i] = sep}
        pos(k) == CHOOSE i \in at : Cardinality({j \in at : j < i}) = k - 1
        n == Cardinality(at)
    IN  [k \in 1..(n + 1) |->
            LET from == IF k = 1 THEN 1 ELSE pos(k - 1) + 1
                to == IF k = n + 1 THEN Len(s) ELSE pos(k) - 1
            IN  IF from > to THEN <<>> ELSE SubSeq(s, from, to)]

\* re.split(r'[,\s]+', s): the pieces between the runs of separators; a run
\* at the start or at the end leaves an empty first or last piece
ReSplit(s) ==
    LET seps == Whitespace \cup {","}
        starts == {i \in 1..Len(s) : s[i] \notin seps /\ (i = 1 \/ s[i - 1] \in seps)}
        start(k) == CHOOSE i \in starts : Cardinality({j \in starts : j < i}) = k - 1
        end(i) == CHOOSE j \in i..Len(s) :
                      /\ (j = Len(s) \/ s[j + 1] \in seps)
                      /\ \A m \in i..j : s[m] \notin seps
    IN  (IF s = <<>> \/ s[1] \in seps THEN <<<<>>>> ELSE <<>>)
        \o [k \in 1..Cardinality(starts) |-> SubSeq(s, start(k), end(start(k)))]
        \o (IF s # <<>> /\ s[Len(s)] \in seps THEN <<<<>>>> ELSE <<>>)

\* the lower-case letter of every ASCII capital
LowerOf ==
    [A |-> "a", B |-> "b", C |-> "c", D |-> "d", E |-> "e", F |-> "f", G |-> "g",
     H |-> "h", I |-> "i", J |-> "j", K |-> "k", L |-> "l", M |-> "m", N |-> "n",
     O |-> "o", P |-> "p", Q |-> "q", R |-> "r", S |-> "s", T |-> "t", U |-> "u",
     V |-> "v", W |-> "w", X |-> "x", Y |-> "y", Z |-> "z"]

\* s with its ASCII capitals in lower case: float() matches the names of
\* infinity and NaN so
AsciiLower(s) == [i \in 1..Len(s) |-> IF s[i] \in DOMAIN LowerOf THEN LowerOf[s[i]] ELSE s[i]]

\* c.lower() is the one character m, m a character of "not found".  Of all
\* characters str.lower() turns only the ASCII capitals and the characters
\* of the marker themselves into text that holds a character of the marker,
\* and each of them into that one character
LowersTo(c, m) == c = m \/ (c \in DOMAIN LowerOf /\ LowerOf[c] = m)

\* needle in s
Contains(s, needle) ==
    \E i \in 0..(Len(s) - Len(needle)) : \A j \in 1..Len(needle) : s[i + j] = needle[j]

NotFoundMarker == <<"n", "o", "t", " ", "f", "o", "u", "n", "d">>

Base == 2^15

Limb(a, i) == IF i <= Len(a) THEN a[i] ELSE 0

NatNorm(a) ==
    IF \A i \in 1..Len(a) : a[i] = 0 THEN <<>>
    ELSE SubSeq(a, 1, CHOOSE i \in 1..Len(a) :
                          a[i] # 0 /\ \A j \in (i + 1)..Len(a) : a[j] = 0)

\* a machine integer 0 <= n < 2^31 as a natural
NatOfInt(n) ==
    NatNorm(<<n % Base, (n \div Base) % Base, n \div (Base * Base)>>)

\* -1, 0, 1 as a < b, a = b, a > b
NatCmp(a, b) ==
    IF Len(a) # Len(b) THEN (IF Len(a) < Len(b) THEN -1 ELSE 1)
    ELSE IF a = b THEN 0
    ELSE LET i == CHOOSE i \in 1..Len(a) :
                      a[i] # b[i] /\ \A j \in (i + 1)..Len(a) : a[j] = b[j]
         IN  IF a[i] < b[i] THEN -1 ELSE 1

\* the carry into limb i of a + b
AddCarry(a, b, i) ==
    IF \E j \in 1..(i - 1) :
          /\ Limb(a, j) + Limb(b, j) >= Base
          /\ \A k \in (j + 1)..(i - 1) : Limb(a, k) + Limb(b, k) = Base - 1
    THEN 1 ELSE 0

NatAdd(a, b) ==
    LET n == (IF Len(a) > Len(b) THEN Len(a) ELSE Len(b)) + 1
    IN  NatNorm([i \in 1..n |-> (Limb(a, i) + Limb(b, i) + AddCarry(a, b, i)) % Base])

\* the borrow out of the limbs below i in a - b
SubBorrow(a, b, i) ==
    IF \E j \in 1..(i - 1) :
          /\ Limb(a, j) < Limb(b, j)
          /\ \A k \in (j + 1)..(i - 1) : Limb(a, k) = Limb(b, k)
    THEN 1 ELSE 0

\* a - b for a >= b
NatSub(a, b) ==
    NatNorm([i \in 1..Len(a) |->
                (Limb(a, i) - Limb(b, i) - SubBorrow(a, b, i) + Base) % Base])

\* a * k + c for machine integers 0 <= k, c < 2^15: one pass over the limbs
\* lo..hi with the carry handed from the lower half to the upper half
RECURSIVE MulPass(_, _, _, _, _)
MulPass(a, k, lo, hi, carry) ==
    IF lo > hi \/ carry < 0 THEN [out |-> <<>>, carry |-> carry]
    ELSE IF lo = hi
    THEN [out |-> <<(a[lo] * k + carry) % Base>>, carry |-> (a[lo] * k + carry) \div Base]
    ELSE LET mid == (lo + hi) \div 2
             Upper(l) == LET Join(u) == [out |-> l.out \o u.out, carry |-> u.carry]
                         IN  Join(MulPass(a, k, mid + 1, hi, l.carry))
         IN  Upper(MulPass(a, k, lo, mid, carry))

NatMulAdd(a, k, c) ==
    LET Done(p) == NatNorm(Append(p.out, p.carry))
    IN  Done(MulPass(a, k, 1, Len(a), c))

\* a \div k and a % k for a machine integer 0 < k <= 2^15: one pass from the
\* high limb down, the remainder handed from the upper half to the lower
RECURSIVE DivPass(_, _, _, _, _)
DivPass(a, k, lo, hi, rem) ==
    IF lo > hi \/ rem < 0 THEN [out |-> <<>>, rem |-> rem]
    ELSE IF lo = hi
    THEN [out |-> <<(rem * Base + a[lo]) \div k>>, rem |-> (rem * Base + a[lo]) % k]
    ELSE LET mid == (lo + hi) \div 2
             Below(u) == LET Join(l) == [out |-> l.out \o u.out, rem |-> l.rem]
                         IN  Join(DivPass(a, k, lo, mid, u.rem))
         IN  Below(DivPass(a, k, mid + 1, hi, rem))

NatDivSmall(a, k) ==
    LET Done(p) == [quot |-> NatNorm(p.out), rem |-> p.rem]
    IN  Done(DivPass(a, k, 1, Len(a), 0))

\* the number of bits of a machine integer 0 <= x < 2^15
LimbBits(x) == IF x = 0 THEN 0 ELSE CHOOSE n \in 1..15 : 2^(n - 1) <= x /\ x < 2^n

\* the number of bits of a: 0 for 0
BitLen(a) == IF a = <<>> THEN 0 ELSE 15 * (Len(a) - 1) + LimbBits(a[Len(a)])

\* a * 2^n
ShiftLeft(a, n) ==
    IF a = <<>> THEN <<>>
    ELSE [i \in 1..(n \div 15) |-> 0] \o NatMulAdd(a, 2^(n % 15), 0)

\* a \div 2^n
ShiftRight(a, n) ==
    IF n \div 15 >= Len(a) THEN <<>>
    ELSE NatDivSmall(SubSeq(a, n \div 15 + 1, Len(a)), 2^(n % 15)).quot

\* the number of zero bits at the low end of a # 0
TrailingZeros(a) ==
    LET i == CHOOSE i \in 1..Len(a) : a[i] # 0 /\ \A j \in 1..(i - 1) : a[j] = 0
    IN  15 * (i - 1) + (CHOOSE n \in 0..14 : a[i] % 2^n = 0 /\ a[i] % 2^(n + 1) # 0)

(***************************************************************************)
(* Python int: a sign and a magnitude.  Python float: an IEEE 754 double,  *)
(* the exact value m * 2^e with m odd (or m = 0), an infinity or a NaN.    *)
(***************************************************************************)
PyInt(neg, mag) == [neg |-> neg /\ mag # <<>>, mag |-> mag]

IntOf(n) == PyInt(n < 0, NatOfInt(IF n < 0 THEN -n ELSE n))

IntAdd(a, b) ==
    IF a.neg = b.neg THEN PyInt(a.neg, NatAdd(a.mag, b.mag))
    ELSE IF NatCmp(a.mag, b.mag) >= 0 THEN PyInt(a.neg, NatSub(a.mag, b.mag))
    ELSE PyInt(b.neg, NatSub(b.mag, a.mag))

\* a > 0
IntPositive(a) == ~a.neg /\ a.mag # <<>>

\* sys.float_info.mant_dig
MantissaBits == 53

\* the exponent of the smallest positive double, 2^-1074
MinExponent == -1074

\* every finite double is below 2^1024
MaxExponent == 1024

\* the value 0 of either sign
Zero(neg) == [kind |-> "fin", neg |-> neg, m |-> <<>>, e |-> 0]

\* m * 2^e for m # 0 with z zero bits at its low end
Normal(neg, m, e, z) == [kind |-> "fin", neg |-> neg, m |-> ShiftRight(m, z), e |-> e + z]

Finite(neg, m, e) == IF m = <<>> THEN Zero(neg) ELSE Normal(neg, m, e, TrailingZeros(m))

Infinity(neg) == [kind |-> "inf", neg |-> neg, m |-> <<>>, e |-> 0]

NaN == [kind |-> "nan", neg |-> FALSE, m |-> <<>>, e |-> 0]

\* the binary expansion of n / d, for d <= n < 2d, one bit at a step: with m
\* the bits so far and n twice the remainder, p more bits are wanted.  It
\* stops early when the remainder is 0.
RECURSIVE QuotientBits(_, _, _, _)
\* the next bit is 1 when the remainder holds the divisor (ge)
QuotientBit(n, d, p, m, ge) ==
    QuotientBits(ShiftLeft(IF ge THEN NatSub(n, d) ELSE n, 1), d, p - 1,
                 NatMulAdd(m, 2, IF ge THEN 1 ELSE 0))

QuotientBits(n, d, p, m) ==
    IF p <= 0 \/ n = <<>> \/ Len(m) < 0 THEN [m |-> m, rem |-> n, left |-> p]
    ELSE QuotientBit(n, d, p, m, NatCmp(n, d) >= 0)

\* the double m * 2^t; an infinity when that is 2^1024 or above
Bounded(neg, m, t) ==
    IF BitLen(m) + t > MaxExponent THEN Infinity(neg) ELSE Finite(neg, m, t)

\* round to nearest, ties to even: the quotient q.m and the remainder q.rem
\* against the divisor d, as the double m * 2^t; 0 when the value is below
\* half of 2^-1074 (q.left < 0)
RoundHalfEven(neg, q, d, t) ==
    Bounded(neg,
            IF q.left > 0 THEN ShiftLeft(q.m, q.left)
            ELSE IF q.left < 0 THEN <<>>
            ELSE IF NatCmp(q.rem, d) > 0 \/ (q.rem = d /\ Limb(q.m, 1) % 2 = 1)
            THEN NatMulAdd(q.m, 1, 1)
            ELSE q.m,
            t)

\* n / d with d <= n < 2d, times 2^L: the quotient to 53 bits, or to as many
\* as lie above 2^-1074; a value of 2^1024 or above is an infinity
RoundScaled(neg, n, d, L) ==
    IF L >= MaxExponent THEN Infinity(neg)
    ELSE RoundHalfEven(neg,
                       QuotientBits(n, d,
                                    (IF L - (MantissaBits - 1) > MinExponent
                                     THEN MantissaBits ELSE L - MinExponent + 1),
                                    <<>>),
                       d,
                       IF L - (MantissaBits - 1) > MinExponent
                       THEN L - (MantissaBits - 1) ELSE MinExponent)

\* n / d with d / 2 < n < 2d, times 2^log: n is doubled when it is less
\* than d
RoundAligned(neg, n, d, log, less) ==
    RoundScaled(neg, IF less THEN ShiftLeft(n, 1) ELSE n, d, IF less THEN log - 1 ELSE log)

\* n / d times 2^e0 for n and d of s bits difference: the shorter of the two
\* is shifted to the length of the other
RoundRatio(neg, n, d, e0, s) ==
    RoundAligned(neg,
                 IF s >= 0 THEN n ELSE ShiftLeft(n, -s),
                 IF s >= 0 THEN ShiftLeft(d, s) ELSE d,
                 s + e0,
                 NatCmp(IF s >= 0 THEN n ELSE ShiftLeft(n, -s),
                        IF s >= 0 THEN ShiftLeft(d, s) ELSE d) < 0)

\* the double nearest to (n / d) * 2^e0 for naturals n and d > 0; n * 2^e0
\* is the result when it is a double
RoundToDouble(neg, n, d, e0) ==
    IF n = <<>> THEN Zero(neg)
    ELSE IF /\ d = <<1>> /\ BitLen(n) <= MantissaBits
            /\ e0 >= MinExponent /\ BitLen(n) + e0 <= MaxExponent
    THEN Finite(neg, n, e0)
    ELSE RoundRatio(neg, n, d, e0, BitLen(n) - BitLen(d))

\* -1, 0, 1 as the magnitudes compare: ma * 2^ea against mb * 2^eb
MagCmp(ma, ea, mb, eb) ==
    IF ma = <<>> \/ mb = <<>> THEN (IF ma = mb THEN 0 ELSE IF ma = <<>> THEN -1 ELSE 1)
    ELSE IF BitLen(ma) + ea # BitLen(mb) + eb
    THEN (IF BitLen(ma) + ea < BitLen(mb) + eb THEN -1 ELSE 1)
    ELSE NatCmp(ShiftLeft(ma, IF ea >= eb THEN ea - eb ELSE 0),
                ShiftLeft(mb, IF ea >= eb THEN 0 ELSE eb - ea))

\* -1, 0, 1 as the magnitudes of two finite or infinite values compare: an
\* infinity is above every finite magnitude, that of a double and that of
\* an int of any size
AbsCmp(x, y) ==
    IF x.kind = "inf" \/ y.kind = "inf"
    THEN (IF x.kind = y.kind THEN 0 ELSE IF x.kind = "inf" THEN 1 ELSE -1)
    ELSE MagCmp(x.m, x.e, y.m, y.e)

\* x < y for values of one sign whose magnitudes compare as c
SignedLess(neg, c) == IF neg THEN c > 0 ELSE c < 0

\* +0.0, -0.0 or the int 0
IsZero(v) == v.kind = "fin" /\ v.m = <<>>

\* x < y on finite or infinite values (exact: also used with an int as x
\* or y)
ValueLess(x, y) ==
    IF x.neg # y.neg THEN x.neg /\ ~(IsZero(x) /\ IsZero(y))
    ELSE SignedLess(x.neg, AbsCmp(x, y))

\* float < float: false when either is a NaN
FloatLess(x, y) == x.kind # "nan" /\ y.kind # "nan" /\ ValueLess(x, y)

\* a Python int as an exact value (not rounded to a double)
Exact(a) == Finite(a.neg, a.mag, 0)

\* float(a) for an int a that is within the range of a double
FloatOfInt(a) == RoundToDouble(a.neg, a.mag, <<1>>, 0)

\* a * 2^e + b * 2^e for the magnitudes a and b of x and y, which compare
\* as c; x + (-x) is +0
AddSigned(x, y, e, a, b, c) ==
    RoundToDouble(IF x.neg = y.neg THEN x.neg
                  ELSE IF c = 0 THEN FALSE ELSE IF c > 0 THEN x.neg ELSE y.neg,
                  IF x.neg = y.neg THEN NatAdd(a, b)
                  ELSE NatSub(IF c >= 0 THEN a ELSE b, IF c >= 0 THEN b ELSE a),
                  <<1>>, e)

\* x + y for finite x and y other than 0, the magnitudes brought to the
\* lower exponent e
AddAligned(x, y, e, a, b) == AddSigned(x, y, e, a, b, NatCmp(a, b))

\* float + float
FloatAdd(x, y) ==
    IF x.kind = "nan" \/ y.kind = "nan" THEN NaN
    ELSE IF x.kind = "inf"
    THEN (IF y.kind = "inf" /\ y.neg # x.neg THEN NaN ELSE x)
    ELSE IF y.kind = "inf" THEN y
    ELSE IF x.m = <<>> THEN (IF y.m = <<>> THEN Zero(x.neg /\ y.neg) ELSE y)
    ELSE IF y.m = <<>> THEN x
    ELSE AddAligned(x, y, IF x.e <= y.e THEN x.e ELSE y.e,
                    ShiftLeft(x.m, IF x.e <= y.e THEN 0 ELSE x.e - y.e),
                    ShiftLeft(y.m, IF x.e <= y.e THEN y.e - x.e ELSE 0))

\* float * k for a machine integer 0 < k < 2^15
FloatTimes(x, k) ==
    IF x.kind # "fin" THEN x ELSE RoundToDouble(x.neg, NatMulAdd(x.m, k, 0), <<1>>, x.e)

\* the quotient q, or OverflowError when it is beyond the doubles
Checked(q) == [ok |-> q.kind # "inf", value |-> q]

\* a / b on Python ints, b # 0: the nearest double; OverflowError ("integer
\* division result too large for a float") when that is beyond the doubles
TrueDivide(a, b) == Checked(RoundToDouble(a.neg # b.neg, a.mag, b.mag, 0))

\* k tenths, or k + 1 when the rest rem of x is above half a tenth, or is
\* half a tenth and k is odd: the double nearest to that
NearestTenth(x, k, rem, half) ==
    RoundToDouble(x.neg,
                  IF NatCmp(rem, half) > 0 \/ (rem = half /\ Limb(k, 1) % 2 = 1)
                  THEN NatMulAdd(k, 1, 1) ELSE k,
                  <<10>>, 0)

\* x = (k + rest) / 10 with tens = 10 * x.m the tenths of x in units of 2^x.e
Tenths(x, tens, k) ==
    NearestTenth(x, k, NatSub(tens, ShiftLeft(k, -x.e)), ShiftLeft(<<1>>, -x.e - 1))

\* round(x, 1): the exact value of x rounded half-even to a multiple of
\* 1/10, and the double nearest to that
Round1(x) ==
    IF x.kind # "fin" \/ x.e >= 0 THEN x
    ELSE Tenths(x, NatMulAdd(x.m, 10, 0), ShiftRight(NatMulAdd(x.m, 10, 0), -x.e))

(***************************************************************************)
(* int(text) and float(text)                                               *)

\* the value of a few decimal digits, as a machine integer
RECURSIVE SmallValue(_)
SmallValue(s) ==
    IF s = <<>> THEN 0 ELSE 10 * SmallValue(SubSeq(s, 1, Len(s) - 1)) + DigitVal(s[Len(s)])

\* the natural written by the decimal digits s[lo..hi], after acc: four
\* digits at a step
RECURSIVE DecToNat(_, _, _, _)
DecToNat(s, lo, hi, acc) ==
    IF lo > hi \/ Len(acc) < 0 THEN acc
    ELSE IF hi - lo < 4
    THEN NatMulAdd(acc, 10^(hi - lo + 1), SmallValue(SubSeq(s, lo, hi)))
    ELSE LET Rest(left) == DecToNat(s, (lo + hi) \div 2 + 1, hi, left)
         IN  Rest(DecToNat(s, lo, (lo + hi) \div 2, acc))

\* a * 10^k
RECURSIVE TimesPow10(_, _)
TimesPow10(a, k) ==
    IF k = 0 \/ Len(a) < 0 THEN a
    ELSE IF k <= 4 THEN NatMulAdd(a, 10^k, 0)
    ELSE LET Rest(half) == TimesPow10(half, k - k \div 2)
         IN  Rest(TimesPow10(a, k \div 2))

\* sys.get_int_max_str_digits()
MaxStrDigits == 4300

\* the digits of a literal without the underscores
NoUnderscores(s) == SelectSeq(s, LAMBDA c : c # "_")

\* a literal without its sign, and whether the sign is a minus
Unsigned(t) == IF t # <<>> /\ t[1] \in {"+", "-"} THEN Tail(t) ELSE t

IsNegative(t) == t # <<>> /\ t[1] = "-"

\* the int of at most MaxStrDigits decimal digits; more is a ValueError
IntOfDigits(neg, digits) ==
    IF Len(digits) <= MaxStrDigits
    THEN <<PyInt(neg, DecToNat(digits, 1, Len(digits), <<>>))>>
    ELSE <<>>

\* digits with single underscores between them
IntLiteral(neg, body) ==
    IF /\ body # <<>>
       /\ \A i \in 1..Len(body) : body[i] \in Digits \cup {"_"}
       /\ body[1] # "_" /\ body[Len(body)] # "_"
       /\ \A i \in 1..(Len(body) - 1) : ~(body[i] = "_" /\ body[i + 1] = "_")
    THEN IntOfDigits(neg, NoUnderscores(body))
    ELSE <<>>

\* int(text): the text without surrounding whitespace is an optional sign
\* and digits, with single underscores allowed between digits; more than
\* MaxStrDigits digits is a ValueError too.  None (<<>>) for ValueError.
IntOfText(text) ==
    IntLiteral(IsNegative(RStrip(LStrip(ToAscii(text), NumberSpace), NumberSpace)),
               Unsigned(RStrip(LStrip(ToAscii(text), NumberSpace), NumberSpace)))

\* the largest power of ten some finite double reaches, and the smallest
\* power of ten that does not round to 0
MaxDecimalExponent == 309
MinDecimalExponent == -323

\* the double nearest to n * 10^e10
DecimalRatio(neg, n, e10) ==
    RoundToDouble(neg,
                  IF e10 >= 0 THEN TimesPow10(n, e10) ELSE n,
                  IF e10 >= 0 THEN <<1>> ELSE TimesPow10(<<1>>, -e10),
                  0)

\* the double nearest to d * 10^e10, d a text of decimal digits that does
\* not start with 0
DecimalValue(neg, d, e10) ==
    IF d = <<>> THEN Zero(neg)
    ELSE IF Len(d) + e10 > MaxDecimalExponent THEN Infinity(neg)
    ELSE IF Len(d) + e10 < MinDecimalExponent THEN Zero(neg)
    ELSE DecimalRatio(neg, DecToNat(d, 1, Len(d), <<>>), e10)

\* the double nearest to digits * 10^e10, digits being a text of decimal
\* digits
FloatOfDecimal(neg, digits, e10) == DecimalValue(neg, LStrip(digits, {"0"}), e10)

\* the exponent written by the digits s, or limit when it is more than
\* that
ExponentValue(s, limit) ==
    IF NatCmp(DecToNat(s, 1, Len(s), <<>>), NatOfInt(limit)) > 0 THEN limit
    ELSE SmallValue(LStrip(s, {"0"}))

AllDigits(s) == \A i \in 1..Len(s) : s[i] \in Digits

InfinityNames == {<<"i", "n", "f">>, <<"i", "n", "f", "i", "n", "i", "t", "y">>}
NanName == <<"n", "a", "n">>

\* the index of the first character of s that is in set; 0 when there is
\* none
FirstIn(s, set) ==
    IF \E i \in 1..Len(s) : s[i] \in set
    THEN CHOOSE i \in 1..Len(s) : s[i] \in set /\ \A j \in 1..(i - 1) : s[j] \notin set
    ELSE 0

\* s before and after its character p; all of s and nothing when p is 0
TextBefore(s, p) == IF p = 0 THEN s ELSE SubSeq(s, 1, p - 1)

TextAfter(s, p) == IF p = 0 THEN <<>> ELSE SubSeq(s, p + 1, Len(s))

\* an exponent that takes a literal of these digits beyond every double,
\* up or down, wherever its point is: from here on all exponents are alike
ExponentLimit(digits) == Len(digits) + MaxDecimalExponent - MinDecimalExponent

\* the digits int before and frac after the point, and the exponent exp
\* (with its sign) when the literal has one
DecimalLiteral(neg, int, frac, exp, hasExp) ==
    IF /\ AllDigits(int) /\ AllDigits(frac)
       /\ Len(int) + Len(frac) > 0
       /\ (hasExp => Unsigned(exp) # <<>> /\ AllDigits(Unsigned(exp)))
    THEN <<FloatOfDecimal(neg, int \o frac,
                          (IF IsNegative(exp) THEN -1 ELSE 1)
                              * ExponentValue(Unsigned(exp), ExponentLimit(int \o frac))
                              - Len(frac))>>
    ELSE <<>>

\* a mantissa with its point at p (0: no point)
DecimalParts(neg, mant, exp, hasExp, p) ==
    DecimalLiteral(neg, TextBefore(mant, p), TextAfter(mant, p), exp, hasExp)

\* a literal without its sign, its exponent mark at p (0: no exponent)
FloatBody(neg, b, p) ==
    IF AsciiLower(b) \in InfinityNames THEN <<Infinity(neg)>>
    ELSE IF AsciiLower(b) = NanName THEN <<NaN>>
    ELSE DecimalParts(neg, TextBefore(b, p), TextAfter(b, p), p # 0, FirstIn(TextBefore(b, p), {"."}))

\* a literal: underscores stand between digits only
FloatLiteral(t) ==
    IF \A i \in 1..Len(t) :
           t[i] = "_" => /\ 1 < i /\ i < Len(t)
                         /\ t[i - 1] \in Digits /\ t[i + 1] \in Digits
    THEN FloatBody(IsNegative(t), Unsigned(NoUnderscores(t)),
                   FirstIn(Unsigned(NoUnderscores(t)), {"e", "E"}))
    ELSE <<>>

\* float(text): the text without surrounding whitespace is an optional sign
\* and then inf, infinity or nan in any case, or digits with an optional
\* point and an optional exponent; single underscores are allowed between
\* digits.  None (<<>>) for ValueError.
FloatOfText(text) == FloatLiteral(RStrip(LStrip(ToAscii(text), NumberSpace), NumberSpace))

(***************************************************************************)
(* parsers.py                                                              *)
(* A float is a double, an int is a sign and a magnitude: the values the   *)
(* parsers return are the values of the program, bit for bit.              *)
(***************************************************************************)
parse_cpu_usage(output) ==
    IF output = <<>> THEN None
    ELSE FloatOfText(RStrip(Strip(output), {"%"}))

parse_memory_usage(output) ==
    IF output = <<>> THEN None
    ELSE FloatOfText(Strip(output))

\* float() of the first n of the values, the values a ValueError leaves out
\* among them as None
RECURSIVE FirstFloats(_, _)
FirstFloats(values, n) ==
    IF n = 0 THEN <<>> ELSE Append(FirstFloats(values, n - 1), FloatOfText(values[n]))

\* the tuple of three floats, or None after a ValueError
LoadTriple(floats) ==
    IF \A i \in 1..3 : floats[i] # None
    THEN Some(<<floats[1][1], floats[2][1], floats[3][1]>>)
    ELSE None

LoadValues(values) ==
    IF Len(values) >= 3 THEN LoadTriple(FirstFloats(values, 3)) ELSE None

parse_load_average(output) ==
    IF output = <<>> THEN None ELSE LoadValues(ReSplit(Strip(output)))

\* the lines of output.strip().split('\n')
Lines(output) == Split(Strip(output), "\n")

\* "not found" in output.lower(): the characters of the marker come, one
\* for one, from characters in a row of the output
NotFound(output) ==
    \E i \in 0..(Len(output) - Len(NotFoundMarker)) :
        \A j \in 1..Len(NotFoundMarker) : LowersTo(output[i + j], NotFoundMarker[j])

\* x if x else None, of a list
NonEmpty(list) == IF list # <<>> THEN Some(list) ELSE None

\* the int of every line that has one; the other lines are skipped
RECURSIVE GpuUsages(_)
GpuUsages(lines) ==
    IF lines = <<>> THEN <<>>
    ELSE IntOfText(Strip(Head(lines))) \o GpuUsages(Tail(lines))

parse_gpu_usage(output) ==
    IF output = <<>> \/ NotFound(output) THEN None
    ELSE NonEmpty(GpuUsages(Lines(output)))

\* the percentage parse_gpu_memory multiplies by
Hundred == 100

\* round(q * 100, 1) of the quotient q, or the OverflowError of the division
\* (ok = FALSE)
Percent(q) ==
    IF q.ok THEN [ok |-> TRUE, value |-> Round1(FloatTimes(q.value, Hundred))]
    ELSE [ok |-> FALSE, value |-> IntOf(0)]

\* round((used / total) * 100, 1) if total > 0 else 0: a float, the int 0,
\* or the OverflowError of used / total (ok = FALSE)
UsedPercent(used, total) ==
    IF ~IntPositive(total) THEN [ok |-> TRUE, value |-> IntOf(0)]
    ELSE Percent(TrueDivide(used, total))

\* a line the loop of parse_gpu_memory appends nothing for
NoEntry == [raises |-> FALSE, entry |-> <<>>]

\* the entry of used and total, or the exception of its percentage
MemoryEntry(used, total, p) ==
    IF p.ok
    THEN [raises |-> FALSE,
          entry |-> <<[used_mb |-> used, total_mb |-> total, used_percent |-> p.value]>>]
    ELSE [raises |-> TRUE, entry |-> <<>>]

\* int() of the first n of the parts, stripped
RECURSIVE FirstInts(_, _)
FirstInts(parts, n) ==
    IF n = 0 THEN <<>> ELSE Append(FirstInts(parts, n - 1), IntOfText(Strip(parts[n])))

\* a ValueError of either int() skips the line
MemoryInts(ints) ==
    IF ints[1] = None \/ ints[2] = None THEN NoEntry
    ELSE MemoryEntry(ints[1][1], ints[2][1], UsedPercent(ints[1][1], ints[2][1]))

MemoryParts(parts) == IF Len(parts) >= 2 THEN MemoryInts(FirstInts(parts, 2)) ELSE NoEntry

\* the body of the loop of parse_gpu_memory on one line: the entry it
\* appends (none when the line is skipped), or raises when the division
\* overflows (OverflowError)
GpuMemoryLine(line) == MemoryParts(Split(Strip(line), ","))

\* the entries of a line and of the lines after it; a line that raises ends
\* the loop
MemoryAppend(l, r) ==
    IF l.raises THEN [raises |-> TRUE, entries |-> <<>>]
    ELSE [raises |-> r.raises, entries |-> l.entry \o r.entries]

\* the loop of parse_gpu_memory: the entries of the lines, up to a line that
\* raises
RECURSIVE GpuMemories(_)
GpuMemories(lines) ==
    IF lines = <<>> THEN [raises |-> FALSE, entries |-> <<>>]
    ELSE MemoryAppend(GpuMemoryLine(Head(lines)), GpuMemories(Tail(lines)))

\* gpu_memories if gpu_memories else None, unless the loop raised
MemoryResult(m) ==
    [raises |-> m.raises,
     value |-> IF m.raises \/ m.entries = <<>> THEN None ELSE Some(m.entries)]

\* parse_gpu_memory returns a value or raises: OverflowError is not among
\* the exceptions its loop catches
parse_gpu_memory(output) ==
    IF output = <<>> \/ NotFound(output) THEN [raises |-> FALSE, value |-> None]
    ELSE MemoryResult(GpuMemories(Lines(output)))

\* str(OverflowError) of int / int
OverflowMessage == <<"integer division result too large for a float">>

\* the entry of a line of at least three parts
ProcessEntry(parts) ==
    IF Len(parts) >= 3
    THEN <<[pid |-> Strip(parts[1]), name |-> Strip(parts[2]),
            memory_mb |-> Strip(parts[3])]>>
    ELSE <<>>

\* the body of the loop of parse_gpu_processes on one line
GpuProcessLine(line) ==
    IF Strip(line) = <<>> THEN <<>> ELSE ProcessEntry(Split(line, ","))

RECURSIVE GpuProcesses(_)
GpuProcesses(lines) ==
    IF lines = <<>> THEN <<>>
    ELSE GpuProcessLine(Head(lines)) \o GpuProcesses(Tail(lines))

parse_gpu_processes(output) ==
    IF output = <<>> \/ NotFound(output) THEN None
    ELSE NonEmpty(GpuProcesses(Lines(output)))

(***************************************************************************)
(* config.py: ServerConfig and the parts of Config the checker reads        *)
(***************************************************************************)
\* ServerConfig(name, host, has_gpu).  Config._parse_servers gives a listed
\* server the host of its entry, or its name when the entry has none, and a
\* server named by a pattern its name
ServerConfig(name, host, has_gpu) == [name |-> name, host |-> host, has_gpu |-> has_gpu]

\* Config.get_gpu_servers
RECURSIVE get_gpu_servers(_)
get_gpu_servers(servers) ==
    IF servers = <<>> THEN <<>>
    ELSE (IF Head(servers).has_gpu THEN <<Head(servers)>> ELSE <<>>)
         \o get_gpu_servers(Tail(servers))

\* config.cache['ttl'], in clock ticks
TTL == 2

MandatoryCommands == <<"cpu_usage", "memory_usage", "load_average">>

\* the GPU stage; gpu_processes only when it is in config.commands
GpuCommands(cfg) ==
    <<"gpu_usage", "gpu_memory">>
    \o (IF cfg.gpu_processes THEN <<"gpu_processes">> ELSE <<>>)

Commands ==
    {"cpu_usage", "memory_usage", "load_average", "gpu_usage", "gpu_memory", "gpu_processes"}

(***************************************************************************)
(* ServerChecker._run_ssh_command                                          *)
(* A process result is what subprocess.run did: it returned a completed    *)
(* process with returncode, stdout and stderr (text), it raised            *)
(* TimeoutExpired, or it raised something else: the output of a process    *)
(* that exited with returncode was not UTF-8 ("decode"), or no process     *)
(* could be started ("spawn"); message is the text of that exception.  A   *)
(* message is a sequence of pieces of text.                                *)
(***************************************************************************)
Exit(returncode, stdout, stderr) ==
    [kind |-> "exit", returncode |-> returncode, stdout |-> stdout, stderr |-> stderr,
     message |-> <<>>]

Timeout ==
    [kind |-> "timeout", returncode |-> 0, stdout |-> <<>>, stderr |-> <<>>, message |-> <<>>]

\* subprocess.run raised UnicodeDecodeError on the output of a process that
\* exited with returncode
DecodeError(returncode, message) ==
    [kind |-> "decode", returncode |-> returncode, stdout |-> <<>>, stderr |-> <<>>,
     message |-> message]

\* subprocess.run raised OSError: there is no process
SpawnError(message) ==
    [kind |-> "spawn", returncode |-> 0, stdout |-> <<>>, stderr |-> <<>>,
     message |-> message]

UnresolvedPhrase == <<"C", "o", "u", "l", "d", " ", "n", "o", "t", " ", "r", "e", "s", "o", "l", "v", "e", " ", "h", "o", "s", "t", "n", "a", "m", "e">>

RefusedPhrase == <<"C", "o", "n", "n", "e", "c", "t", "i", "o", "n", " ", "r", "e", "f", "u", "s", "e", "d">>

DeniedPhrase == <<"P", "e", "r", "m", "i", "s", "s", "i", "o", "n", " ", "d", "e", "n", "i", "e", "d">>

\* the result: the trimmed stdout, or the raised exception's message.  An
\* exception raised inside the try block, by subprocess.run or for a
\* non-zero exit, is caught by the trailing "except Exception" and re-raised
\* with the "SSH failed: " prefix; the one raised by the TimeoutExpired
\* handler is not.
_run_ssh_command(server, proc) ==
    IF proc.kind = "timeout"
    THEN [ok |-> FALSE, out |-> <<>>, exc |-> <<"Connection timeout to ", server.host>>]
    ELSE IF proc.kind \in {"decode", "spawn"}
    THEN [ok |-> FALSE, out |-> <<>>, exc |-> <<"SSH failed: ">> \o proc.message]
    ELSE IF proc.returncode # 0
    THEN [ok |-> FALSE, out |-> <<>>,
          exc |-> <<"SSH failed: ">> \o
                  (IF Contains(proc.stderr, UnresolvedPhrase)
                   THEN <<"Unknown host: ", server.host>>
                   ELSE IF Contains(proc.stderr, RefusedPhrase)
                   THEN <<"Connection refused to ", server.host>>
                   ELSE IF Contains(proc.stderr, DeniedPhrase)
                   THEN <<"Permission denied for ", server.host>>
                   ELSE <<"SSH error: ">> \o Strip(proc.stderr))]
    ELSE [ok |-> TRUE, out |-> Strip(proc.stdout), exc |-> <<>>]

(***************************************************************************)
(* ServerChecker._check_server_sync                                        *)
(***************************************************************************)
\* a parser that returns
Returns(value) == [raises |-> FALSE, value |-> value]

\* the parser applied to the output of each command: the value it returns,
\* stored under the command's own name, or the exception it raises
Parse(cmd, output) ==
    CASE cmd = "cpu_usage" -> Returns(parse_cpu_usage(output))
      [] cmd = "memory_usage" -> Returns(parse_memory_usage(output))
      [] cmd = "load_average" -> Returns(parse_load_average(output))
      [] cmd = "gpu_usage" -> Returns(parse_gpu_usage(output))
      [] cmd = "gpu_memory" -> parse_gpu_memory(output)
      [] cmd = "gpu_processes" -> Returns(parse_gpu_processes(output))

\* a command sequence that goes on to the next command after a failure
RECURSIVE RunCommandsAll(_, _, _, _, _)
RunCommandsAll(server, data, cmds, outs, issued) ==
    IF cmds = <<>> THEN [data |-> data, exc |-> None, issued |-> issued]
    ELSE LET cmd == Head(cmds)
             r == _run_ssh_command(server, outs[cmd])
             rest == RunCommandsAll(server,
                                    IF r.ok THEN Put(data, cmd, Parse(cmd, r.out).value)
                                    ELSE data,
                                    Tail(cmds), outs, Append(issued, cmd))
         IN  IF r.ok THEN rest
             ELSE [data |-> rest.data, exc |-> Some(r.exc), issued |-> rest.issued]

\* a command of a try block that raised, and one whose value was stored
Raised(message) == [exc |-> Some(message), value |-> None]

Stored(p) == IF p.raises THEN Raised(OverflowMessage) ELSE [exc |-> None, value |-> p.value]

\* one command of a try block: the ssh call, then the parser on its output
Command(cmd, r) == IF r.ok THEN Stored(Parse(cmd, r.out)) ELSE Raised(r.exc)

RunCommand(server, cmd, proc) == Command(cmd, _run_ssh_command(server, proc))

\* one try block: run the commands in order, storing each parsed output, up
\* to the first command or parser that raises.  outs gives each command's
\* process result; issued is the list of commands run so far.
RECURSIVE RunCommands(_, _, _, _, _)
RECURSIVE Continue(_, _, _, _, _, _)
Continue(server, data, cmds, outs, issued, c) ==
    IF c.exc # None THEN [data |-> data, exc |-> c.exc, issued |-> issued]
    ELSE RunCommands(server, Put(data, Head(cmds), c.value), Tail(cmds), outs, issued)

RunCommands(server, data, cmds, outs, issued) ==
    IF cmds = <<>> THEN [data |-> data, exc |-> None, issued |-> issued]
    ELSE Continue(server, data, cmds, outs, Append(issued, Head(cmds)),
                  RunCommand(server, Head(cmds), outs[Head(cmds)]))

\* a GPU stage that swallows its failure without recording it
GpuStageSilent(cfg, server, data, outs, issued) ==
    IF server.has_gpu
    THEN LET g == RunCommands(server, data, GpuCommands(cfg), outs, issued)
         IN  [data |-> g.data, issued |-> g.issued]
    ELSE [data |-> data, issued |-> issued]

\* the except branch of the inner try: the failure is kept as gpu_error
KeepGpuError(g) ==
    [data |-> IF g.exc # None THEN Put(g.data, "gpu_error", g.exc[1]) ELSE g.data,
     issued |-> g.issued]

\* the inner try: the GPU stage of a GPU host
GpuStage(cfg, server, data, outs, issued) ==
    IF server.has_gpu
    THEN KeepGpuError(RunCommands(server, data, GpuCommands(cfg), outs, issued))
    ELSE [data |-> data, issued |-> issued]

\* an except branch that records the error but reports the host online
MarkOfflineOnline(data, exc) == Put(Put(data, "error", exc), "online", TRUE)

\* an except branch that records the error and sets no online flag
MarkOfflineUnflagged(data, exc) == Put(data, "error", exc)

\* the except branch of the outer try
MarkOffline(data, exc) == Put(Put(data, "error", exc), "online", FALSE)

\* the dict a check starts from
NewData(server, time) ==
    [name |-> server.name, host |-> server.host, has_gpu |-> server.has_gpu,
     checked_at |-> time]

\* a check whose GPU stage is not nested in the mandatory stage's try block:
\* it runs whether or not a mandatory command failed
check_server_sync_gpu_always(cfg, server, time, outs) ==
    LET m == RunCommands(server, NewData(server, time), MandatoryCommands, outs, <<>>)
        g == GpuStage(cfg, server, m.data, outs, m.issued)
    IN  IF m.exc # None
        THEN [data |-> MarkOffline(g.data, m.exc[1]), issued |-> g.issued]
        ELSE [data |-> Put(g.data, "online", TRUE), issued |-> g.issued]

\* the else branch of the outer try
MarkOnline(g) == [data |-> Put(g.data, "online", TRUE), issued |-> g.issued]

\* the outer try after its mandatory commands: the GPU stage, or the except
\* branch
Outcome(cfg, server, outs, m) ==
    IF m.exc # None
    THEN [data |-> MarkOffline(m.data, m.exc[1]), issued |-> m.issued]
    ELSE MarkOnline(GpuStage(cfg, server, m.data, outs, m.issued))

_check_server_sync(cfg, server, time, outs) ==
    Outcome(cfg, server, outs,
            RunCommands(server, NewData(server, time), MandatoryCommands, outs, <<>>))
(***************************************************************************)
(* ServerChecker.find_best_server: filters, score, sort                    *)
(***************************************************************************)
\* the fixed memory-usage cutoff of the min_memory_gb filter
MemThreshold == 80

\* the default of server.get('cpu_usage', 100) / server.get('memory_usage', 100)
ScoreDefault == 100

\* a Python number is a float (it has a kind) or an int
IsFloat(v) == "kind" \in DOMAIN v

\* x < y on Python numbers: the values are compared exactly, and nothing is
\* less than a NaN nor a NaN less than anything
NumLess(x, y) ==
    FloatLess(IF IsFloat(x) THEN x ELSE Exact(x), IF IsFloat(y) THEN y ELSE Exact(y))

\* x + y on Python numbers: an int meeting a float is converted (the ints
\* of the score are 0, 100 and 200)
NumAdd(x, y) ==
    IF IsFloat(x) \/ IsFloat(y)
    THEN FloatAdd(IF IsFloat(x) THEN x ELSE FloatOfInt(x),
                  IF IsFloat(y) THEN y ELSE FloatOfInt(y))
    ELSE IntAdd(x, y)

\* Python truthiness of server.get('gpu_usage'): None and [] are false
HasGpuUsage(server) ==
    LET g == Get(server, "gpu_usage", None) IN g # None /\ g[1] # <<>>

RECURSIVE OnlineServers(_)
OnlineServers(results) ==
    IF results = <<>> THEN <<>>
    ELSE (IF Get(Head(results), "online", FALSE) THEN <<Head(results)>> ELSE <<>>)
         \o OnlineServers(Tail(results))

CpuFilter(server, max_cpu) ==
    max_cpu # None =>
        LET cpu == Get(server, "cpu_usage", None)
        IN  ~(cpu = None \/ NumLess(max_cpu[1], cpu[1]))

MemoryFilter(server, min_memory_gb) ==
    min_memory_gb # None =>
        LET mem_usage == Get(server, "memory_usage", None)
        IN  ~(mem_usage = None \/ NumLess(IntOf(MemThreshold), mem_usage[1]))

GpuFilter(server, need_gpu) == need_gpu => HasGpuUsage(server)

PassesFilters(server, crit) ==
    /\ CpuFilter(server, crit.max_cpu)
    /\ MemoryFilter(server, crit.min_memory_gb)
    /\ GpuFilter(server, crit.need_gpu)

RECURSIVE Filtered(_, _)
Filtered(online_servers, crit) ==
    IF online_servers = <<>> THEN <<>>
    ELSE (IF PassesFilters(Head(online_servers), crit) THEN <<Head(online_servers)>> ELSE <<>>)
         \o Filtered(Tail(online_servers), crit)

\* sum(q) of a list of ints
RECURSIVE SumSeq(_)
SumSeq(q) == IF q = <<>> THEN IntOf(0) ELSE IntAdd(SumSeq(SubSeq(q, 1, Len(q) - 1)), q[Len(q)])

\* x + y + ... on Python numbers, from left to right
RECURSIVE NumSum(_)
NumSum(q) ==
    IF Len(q) = 1 THEN q[1] ELSE NumAdd(NumSum(SubSeq(q, 1, Len(q) - 1)), q[Len(q)])

\* gpu_score: the int 0, or the mean of the GPU list, which raises
\* OverflowError (ok = FALSE) when it is beyond the floats
GpuScore(server) ==
    IF HasGpuUsage(server)
    THEN TrueDivide(SumSeq(server["gpu_usage"][1]), IntOf(Len(server["gpu_usage"][1])))
    ELSE [ok |-> TRUE, value |-> IntOf(0)]

\* cpu + mem + gpu_score: adding None raises TypeError (ok = FALSE)
ScoreTotal(cpu, mem, gpu_score) ==
    IF ~gpu_score.ok \/ cpu = None \/ mem = None
    THEN [ok |-> FALSE, value |-> IntOf(0)]
    ELSE [ok |-> TRUE, value |-> NumSum(<<cpu[1], mem[1], gpu_score.value>>)]

score_server(server) ==
    ScoreTotal(Get(server, "cpu_usage", Some(IntOf(ScoreDefault))),
               Get(server, "memory_usage", Some(IntOf(ScoreDefault))),
               GpuScore(server))

\* list.sort(key=...) sorts the pairs of a key and an element by the keys
ScoreLess(a, b) == NumLess(a.key, b.key)

\* what count_run asks of each element after the first: is it less than the
\* one before it
Descends(q) == [i \in 1..(Len(q) - 1) |-> ScoreLess(q[i + 1], q[i])]

\* the run goes on while the answers are the first answer: n is its length
RunLength(d) ==
    CHOOSE n \in 2..(Len(d) + 1) :
        /\ \A i \in 1..(n - 1) : d[i] = d[1]
        /\ (n = Len(d) + 1 \/ d[n] # d[1])

\* count_run of list.sort: the length of the run the list starts with,
\* strictly descending (then it is reversed) or not descending
CountRun(q) ==
    IF Len(q) <= 1 THEN [n |-> Len(q), descending |-> FALSE]
    ELSE [n |-> RunLength(Descends(q)), descending |-> Descends(q)[1]]

\* the binary search of binarysort: the number of elements of the sorted
\* list q that x is put after, between l and r
RECURSIVE InsertionPoint(_, _, _, _)
InsertionPoint(q, x, l, r) ==
    IF l >= r THEN l
    ELSE IF ScoreLess(x, q[(l + r) \div 2 + 1])
    THEN InsertionPoint(q, x, l, (l + r) \div 2)
    ELSE InsertionPoint(q, x, (l + r) \div 2 + 1, r)

\* q with its element n + 1 moved to follow the first p
Inserted(q, n, p) ==
    SubSeq(q, 1, p) \o <<q[n + 1]>> \o SubSeq(q, p + 1, n) \o SubSeq(q, n + 2, Len(q))

\* binarysort of list.sort: the elements after the first n, which are
\* sorted, are inserted one by one
RECURSIVE BinarySort(_, _)
BinarySort(q, n) ==
    IF n >= Len(q) THEN q
    ELSE BinarySort(Inserted(q, n, InsertionPoint(q, q[n + 1], 0, n)), n + 1)

Reverse(q) == [i \in 1..Len(q) |-> q[Len(q) + 1 - i]]

\* the keys of the sort: list.sort(key=...) computes them all before it
\* compares any
RECURSIVE Keys(_)
Keys(q) == IF q = <<>> THEN <<>> ELSE <<score_server(Head(q))>> \o Keys(Tail(q))

\* the pairs of a key and an element the sort works on, and their elements
Keyed(q, keys) == [i \in 1..Len(q) |-> [key |-> keys[i].value, item |-> q[i]]]

Items(s) == [i \in 1..Len(s) |-> s[i].item]

\* the list with the run it starts with in ascending order
RunFirst(keyed, run) ==
    (IF run.descending THEN Reverse(SubSeq(keyed, 1, run.n)) ELSE SubSeq(keyed, 1, run.n))
    \o SubSeq(keyed, run.n + 1, Len(keyed))

\* MIN_GALLOP of list.sort: how often in a row one run must win a merge
\* before the merge gallops
MinGallop == 7

\* list.sort takes runs of at least merge_compute_minrun(n) elements: all n
\* when n is below MinMerge
MinMerge == 64

RECURSIVE MinRunFrom(_, _)
MinRunFrom(n, r) ==
    IF n >= MinMerge THEN MinRunFrom(n \div 2, IF n % 2 = 1 THEN 1 ELSE r) ELSE n + r

\* the place of key is sought among the elements of a run: x stays before
\* key when x < key (gallop_left: key goes left of its equals), or when
\* x <= key (gallop_right: key goes right of them)
Precedes(left, x, key) == IF left THEN ScoreLess(x, key) ELSE ~ScoreLess(key, x)

\* the galloping of gallop_left and gallop_right: from the hint to the
\* right, or to the left, in steps of 1, 3, 7, ... until key is passed
RECURSIVE GallopOut(_, _, _, _, _, _, _, _)
GallopOut(left, key, q, hint, right, lastofs, ofs, maxofs) ==
    IF /\ ofs < maxofs
       /\ Precedes(left, q[hint + 1 + (IF right THEN ofs ELSE -ofs)], key) = right
    THEN GallopOut(left, key, q, hint, right, ofs, 2 * ofs + 1, maxofs)
    ELSE [lastofs |-> lastofs, ofs |-> IF ofs > maxofs THEN maxofs ELSE ofs]

\* their binary search between the last two places of the galloping
RECURSIVE GallopSearch(_, _, _, _, _)
GallopSearch(left, key, q, l, r) ==
    IF l >= r THEN r
    ELSE IF Precedes(left, q[l + (r - l) \div 2 + 1], key)
    THEN GallopSearch(left, key, q, l + (r - l) \div 2 + 1, r)
    ELSE GallopSearch(left, key, q, l, l + (r - l) \div 2)

\* the search after the galloping g, which went to the right or to the left
GallopBetween(left, key, q, hint, right, g) ==
    GallopSearch(left, key, q,
                 IF right THEN g.lastofs + hint + 1 ELSE hint - g.ofs + 1,
                 IF right THEN g.ofs + hint ELSE hint - g.lastofs)

\* the galloping goes to the right when the element at the hint stays
\* before key
GallopFrom(left, key, q, hint, right) ==
    GallopBetween(left, key, q, hint, right,
                  GallopOut(left, key, q, hint, right, 0, 1,
                            IF right THEN Len(q) - hint ELSE hint + 1))

\* gallop_left (left) and gallop_right: the number of elements of the run q
\* that key is put after, sought from the element after the first hint
Gallop(left, key, q, hint) ==
    GallopFrom(left, key, q, hint, Precedes(left, q[hint + 1], key))

\* merge_lo has taken the first ia elements of the run A and the first ib
\* of B into out.  Where it ends, what is left of B is in place and what is
\* left of A follows it (one of the two is empty, or A has one element left
\* that goes last)
LoEnd(A, B, s) ==
    [out |-> s.out \o SubSeq(B, s.ib + 1, Len(B)) \o SubSeq(A, s.ia + 1, Len(A)),
     mg |-> s.mg]

\* the merge ends
Ends(s) == [s EXCEPT !.mode = "end"]

\* how a merge goes on after it took an element: it ends, or it gallops
\* from now on (min_gallop, mg, goes up by one) when one run has won mg
\* times in a row, or it takes the next element
AfterOne(t, ends, streak) ==
    IF ends THEN Ends(t)
    ELSE IF streak >= t.mg THEN [t EXCEPT !.mode = "gallop", !.mg = @ + 1]
    ELSE t

\* one turn of the loop of merge_lo that takes the elements one by one
MergeLoOne(A, B, s) ==
    IF ScoreLess(B[s.ib + 1], A[s.ia + 1])
    THEN AfterOne([s EXCEPT !.out = Append(@, B[s.ib + 1]), !.ib = @ + 1,
                            !.bc = @ + 1, !.ac = 0],
                  s.ib + 1 = Len(B), s.bc + 1)
    ELSE AfterOne([s EXCEPT !.out = Append(@, A[s.ia + 1]), !.ia = @ + 1,
                            !.ac = @ + 1, !.bc = 0],
                  s.ia + 1 = Len(A) - 1, s.ac + 1)

\* how a merge goes on after a round of galloping, in which ka elements of
\* one run and kb of the other were taken at once: it ends, or it gallops
\* on while either streak is of MinGallop elements or more, or it takes the
\* elements one by one again (min_gallop goes up by one)
AfterGallop(t, ends, ka, kb) ==
    IF ends THEN Ends(t)
    ELSE IF ka >= MinGallop \/ kb >= MinGallop THEN t
    ELSE [t EXCEPT !.mode = "one", !.mg = @ + 1, !.ac = 0, !.bc = 0]

\* a round of the galloping of merge_lo, its last part: the kb elements of
\* B that go before the next of A are taken at once, then that of A
LoTakeB(A, B, s, ka, kb) ==
    IF s.ib + kb = Len(B)
    THEN Ends([s EXCEPT !.out = @ \o SubSeq(B, s.ib + 1, Len(B)), !.ib = Len(B)])
    ELSE AfterGallop([s EXCEPT !.out = @ \o SubSeq(B, s.ib + 1, s.ib + kb)
                                         \o <<A[s.ia + 1]>>,
                               !.ib = @ + kb, !.ia = @ + 1],
                     s.ia + 1 = Len(A) - 1, ka, kb)

\* its middle part: the next element of B is taken
LoNextB(A, B, s, ka) ==
    IF s.ib = Len(B) THEN Ends(s)
    ELSE LoTakeB(A, B, s, ka, Gallop(TRUE, A[s.ia + 1], SubSeq(B, s.ib + 1, Len(B)), 0))

\* its first part: the ka elements of A that go before the next of B are
\* taken at once
LoTakeA(A, B, s, ka) ==
    IF s.ia + ka >= Len(A) - 1
    THEN Ends([s EXCEPT !.out = @ \o SubSeq(A, s.ia + 1, s.ia + ka), !.ia = @ + ka])
    ELSE LoNextB(A, B, [s EXCEPT !.out = @ \o SubSeq(A, s.ia + 1, s.ia + ka)
                                           \o <<B[s.ib + 1]>>,
                                 !.ia = @ + ka, !.ib = @ + 1], ka)

\* one round of the galloping of merge_lo: min_gallop goes down by one, to
\* one at the least
MergeLoGallop(A, B, s) ==
    LoTakeA(A, B, [s EXCEPT !.mg = IF @ > 1 THEN @ - 1 ELSE @],
            Gallop(FALSE, B[s.ib + 1], SubSeq(A, s.ia + 1, Len(A)), 0))

\* the next k turns of merge_lo, or those until it ends
RECURSIVE MergeLoSteps(_, _, _, _)
MergeLoSteps(A, B, s, k) ==
    IF s.mode = "end" \/ k = 0 THEN s
    ELSE IF k > 1 THEN MergeLoSteps(A, B, MergeLoSteps(A, B, s, k \div 2), k - k \div 2)
    ELSE IF s.mode = "gallop" THEN MergeLoGallop(A, B, s)
    ELSE MergeLoOne(A, B, s)

\* merge_lo: the runs A and B, A the shorter, merged from the left; the
\* first element of B is known to go first.  Every turn takes an element
\* or more
MergeLo(A, B, mg) ==
    LoEnd(A, B, MergeLoSteps(A, B,
                             [ia |-> 0, ib |-> 1, out |-> <<B[1]>>, ac |-> 0, bc |-> 0,
                              mg |-> mg,
                              mode |-> IF Len(B) = 1 \/ Len(A) = 1 THEN "end" ELSE "one"],
                             Len(A) + Len(B)))

\* merge_hi has taken all but the first na elements of A and the first nb
\* of B into out, from the right.  Where it ends, what is left of A is in
\* place and what is left of B goes before it (one of the two is empty, or B
\* has one element left that goes first)
HiEnd(A, B, s) ==
    [out |-> SubSeq(B, 1, s.nb) \o SubSeq(A, 1, s.na) \o s.out, mg |-> s.mg]

\* one turn of the loop of merge_hi that takes the elements one by one
MergeHiOne(A, B, s) ==
    IF ScoreLess(B[s.nb], A[s.na])
    THEN AfterOne([s EXCEPT !.out = <<A[s.na]>> \o @, !.na = @ - 1,
                            !.ac = @ + 1, !.bc = 0],
                  s.na - 1 = 0, s.ac + 1)
    ELSE AfterOne([s EXCEPT !.out = <<B[s.nb]>> \o @, !.nb = @ - 1,
                            !.bc = @ + 1, !.ac = 0],
                  s.nb - 1 = 1, s.bc + 1)

\* a round of the galloping of merge_hi, its last part: the kb elements of
\* B that go after the next of A are taken at once, then that of A
HiTakeB(A, B, s, ka, kb) ==
    IF s.nb - kb <= 1
    THEN Ends([s EXCEPT !.out = SubSeq(B, s.nb - kb + 1, s.nb) \o @, !.nb = @ - kb])
    ELSE AfterGallop([s EXCEPT !.out = <<A[s.na]>> \o SubSeq(B, s.nb - kb + 1, s.nb) \o @,
                               !.nb = @ - kb, !.na = @ - 1],
                     s.na - 1 = 0, ka, kb)

\* its middle part: the next element of B is taken
HiNextB(A, B, s, ka) ==
    IF s.nb = 1 THEN Ends(s)
    ELSE HiTakeB(A, B, s, ka,
                 s.nb - Gallop(TRUE, A[s.na], SubSeq(B, 1, s.nb), s.nb - 1))

\* its first part: the ka elements of A that go after the next of B are
\* taken at once
HiTakeA(A, B, s, ka) ==
    IF s.na - ka = 0
    THEN Ends([s EXCEPT !.out = SubSeq(A, 1, s.na) \o @, !.na = 0])
    ELSE HiNextB(A, B, [s EXCEPT !.out = <<B[s.nb]>> \o SubSeq(A, s.na - ka + 1, s.na) \o @,
                                 !.na = @ - ka, !.nb = @ - 1], ka)

\* one round of the galloping of merge_hi
MergeHiGallop(A, B, s) ==
    HiTakeA(A, B, [s EXCEPT !.mg = IF @ > 1 THEN @ - 1 ELSE @],
            s.na - Gallop(FALSE, B[s.nb], SubSeq(A, 1, s.na), s.na - 1))

\* the next k turns of merge_hi, or those until it ends
RECURSIVE MergeHiSteps(_, _, _, _)
MergeHiSteps(A, B, s, k) ==
    IF s.mode = "end" \/ k = 0 THEN s
    ELSE IF k > 1 THEN MergeHiSteps(A, B, MergeHiSteps(A, B, s, k \div 2), k - k \div 2)
    ELSE IF s.mode = "gallop" THEN MergeHiGallop(A, B, s)
    ELSE MergeHiOne(A, B, s)

\* merge_hi: the runs A and B, B the shorter, merged from the right; the
\* last element of A is known to go last
MergeHi(A, B, mg) ==
    HiEnd(A, B, MergeHiSteps(A, B,
                             [na |-> Len(A) - 1, nb |-> Len(B), out |-> <<A[Len(A)]>>,
                              ac |-> 0, bc |-> 0, mg |-> mg,
                              mode |-> IF Len(A) = 1 \/ Len(B) = 1 THEN "end" ELSE "one"],
                             Len(A) + Len(B)))

\* the merged run m between the elements that stayed in place
Around(head, m, tail) == [out |-> head \o m.out \o tail, mg |-> m.mg]

\* the shorter run is the one copied aside: merge_lo when it is the first
MergeTrimmed(head, A, B, tail, mg) ==
    Around(head, IF Len(A) <= Len(B) THEN MergeLo(A, B, mg) ELSE MergeHi(A, B, mg), tail)

\* the last nb elements of B stay in place when they go after all of A
MergeBetween(A, B, mg, k, nb) ==
    IF nb = 0 THEN [out |-> A \o B, mg |-> mg]
    ELSE MergeTrimmed(SubSeq(A, 1, k), SubSeq(A, k + 1, Len(A)),
                      SubSeq(B, 1, nb), SubSeq(B, nb + 1, Len(B)), mg)

\* the first k elements of A stay in place when they go before all of B
MergeAfter(A, B, mg, k) ==
    IF k = Len(A) THEN [out |-> A \o B, mg |-> mg]
    ELSE MergeBetween(A, B, mg, k, Gallop(TRUE, A[Len(A)], B, Len(B) - 1))

\* merge_at on the runs A and B that follow each other
MergeRuns(A, B, mg) == MergeAfter(A, B, mg, Gallop(FALSE, B[1], A, 0))

\* the elements of the pending run p in the list a
RunOf(a, p) == SubSeq(a, p.base + 1, p.base + p.len)

\* the pending runs i and i + 1 of the sort st become the one run m
Merged(st, p, i, m) ==
    [a |-> SubSeq(st.a, 1, p[i].base) \o m.out
               \o SubSeq(st.a, p[i + 1].base + p[i + 1].len + 1, Len(st.a)),
     pending |-> SubSeq(p, 1, i - 1)
                     \o <<[p[i] EXCEPT !.len = p[i].len + p[i + 1].len]>>
                     \o SubSeq(p, i + 2, Len(p)),
     mg |-> m.mg]

\* merge_at: the pending runs i and i + 1 of the sort st are merged
MergeAt(st, i) ==
    Merged(st, st.pending, i,
           MergeRuns(RunOf(st.a, st.pending[i]), RunOf(st.a, st.pending[i + 1]), st.mg))

\* powerloop: the depth of the node between two adjacent runs in the
\* merge tree of powersort
RECURSIVE PowerLoop(_, _, _, _)
PowerLoop(a, b, n, result) ==
    IF a >= n THEN PowerLoop(2 * (a - n), 2 * (b - n), n, result + 1)
    ELSE IF b >= n THEN result
    ELSE PowerLoop(2 * a, 2 * b, n, result + 1)

RECURSIVE MergeAbove(_, _)
MergeAbove(st, power) ==
    IF Len(st.pending) > 1 /\ st.pending[Len(st.pending) - 1].power > power
    THEN MergeAbove(MergeAt(st, Len(st.pending) - 1), power)
    ELSE st

\* the run on top of the pending runs gets the power of the boundary after it
WithPower(st, power) == [st EXCEPT !.pending[Len(st.pending)].power = power]

\* the pending runs of a higher power than the boundary are merged
FoundBoundary(st, power) == WithPower(MergeAbove(st, power), power)

\* found_new_run: a run of n2 elements follows the pending runs
FoundNewRun(st, top, n2) ==
    FoundBoundary(st, PowerLoop(2 * top.base + top.len,
                                2 * top.base + 2 * top.len + n2, Len(st.a), 1))

\* merge_force_collapse: the pending runs are merged until one is left
RECURSIVE MergeForceCollapse(_)
MergeForceCollapse(st) ==
    IF Len(st.pending) <= 1 THEN st
    ELSE MergeForceCollapse(
             MergeAt(st, IF /\ Len(st.pending) > 2
                            /\ st.pending[Len(st.pending) - 2].len
                                   < st.pending[Len(st.pending)].len
                         THEN Len(st.pending) - 2 ELSE Len(st.pending) - 1))

\* the run of n elements from lo + 1 on is pushed on the pending runs
Pushed(st, lo, n) == [st EXCEPT !.pending = Append(@, [base |-> lo, len |-> n, power |-> 0])]

\* the run from lo + 1 on, brought to n elements, is in ascending order in
\* the list a
RunFound(st, lo, n, a) ==
    Pushed(IF st.pending = <<>> THEN [st EXCEPT !.a = a]
           ELSE FoundNewRun([st EXCEPT !.a = a], st.pending[Len(st.pending)], n),
           lo, n)

\* the run the elements rest start with, put in ascending order, is brought
\* to n elements by binarysort
RunSorted(st, lo, rest, run, n) ==
    RunFound(st, lo, n,
             SubSeq(st.a, 1, lo) \o BinarySort(SubSeq(RunFirst(rest, run), 1, n), run.n)
                 \o SubSeq(rest, n + 1, Len(rest)))

\* a run shorter than minrun is brought to minrun elements, or to all that
\* are left
NextRun(st, lo, minrun, rest, run) ==
    RunSorted(st, lo, rest, run,
              IF run.n >= minrun THEN run.n
              ELSE IF Len(rest) <= minrun THEN Len(rest) ELSE minrun)

\* the number of elements that are in the pending runs
Lo(st) ==
    IF st.pending = <<>> THEN 0
    ELSE st.pending[Len(st.pending)].base + st.pending[Len(st.pending)].len

\* the loop of list.sort: the run that the elements after the pending runs
\* start with is found and pushed on them; when no element is left the
\* pending runs are merged
RECURSIVE SortFrom(_, _)
SortFrom(st, minrun) ==
    IF Lo(st) = Len(st.a) THEN MergeForceCollapse(st).a
    ELSE SortFrom(NextRun(st, Lo(st), minrun, SubSeq(st.a, Lo(st) + 1, Len(st.a)),
                          CountRun(SubSeq(st.a, Lo(st) + 1, Len(st.a)))),
                  minrun)

\* list.sort (CPython 3.11)
ListSort(keyed) ==
    IF Len(keyed) < 2 THEN keyed
    ELSE SortFrom([a |-> keyed, pending |-> <<>>, mg |-> MinGallop],
                  MinRunFrom(Len(keyed), 0))

\* filtered.sort(key=score_server)
SortByScore(q, keys) == Items(ListSort(Keyed(q, keys)))

\* the end of find_best_server: None for an empty list, the exception of a
\* key that raises, or the first of the sorted list
BestOf(filtered, keys) ==
    IF filtered = <<>> THEN [kind |-> "return", value |-> None]
    ELSE IF \E i \in 1..Len(keys) : ~keys[i].ok
    THEN [kind |-> "raise", value |-> None]
    ELSE [kind |-> "return", value |-> Some(SortByScore(filtered, keys)[1])]

Scored(filtered) == BestOf(filtered, Keys(filtered))

\* the part of find_best_server after the batch has been gathered
SelectBest(results, crit) == Scored(Filtered(OnlineServers(results), crit))

\* the hosts find_best_server checks
Candidates(cfg, need_gpu) ==
    IF need_gpu THEN get_gpu_servers(cfg.servers) ELSE cfg.servers

(***************************************************************************)
(* Bounds of the model                                                     *)
(***************************************************************************)
MaxTime == 2      \* the clock runs from 0 to MaxTime
MaxCalls == 2     \* check_servers / check_server calls made in one run
MaxTasks == 2     \* check_server coroutines created in one run of Spec
MaxTextLen == 3   \* the longest text drawn from the alphabet

\* ThreadPoolExecutor(max_workers=10)
max_workers == 10

(***************************************************************************)
(* The remote world: what each command's process produces                  *)
(***************************************************************************)
OkOutput(cmd) ==
    CASE cmd = "cpu_usage" -> <<"1", "2", "%", "\n">>
      [] cmd = "memory_usage" -> <<"4", "5", "\n">>
      [] cmd = "load_average" -> <<"0", ".", "5", ",", " ", "1", ",", " ", "2", "\n">>
      [] cmd = "gpu_usage" -> <<"3", "0", "\n", "5", "0", "\n">>
      [] cmd = "gpu_memory" -> <<"8", "1", "9", "2", ",", " ", "1", "6", "3", "8", "4", "\n">>
      [] cmd = "gpu_processes" -> <<"7", ",", "a", ",", "9", "\n">>

OkWorld == [cmd \in Commands |-> Exit(0, OkOutput(cmd), <<>>)]

Refused == Exit(255, <<>>, <<"s", "s", "h", ":", " ">> \o RefusedPhrase \o <<"\n">>)

Denied == Exit(255, <<>>, DeniedPhrase \o <<"\n">>)

Broken == Exit(1, <<>>, <<"b", "a", "s", "h", ":", " ", "c", "o", "m", "m", "a", "n", "d", " ", "n", "o", "t", " ", "f", "o", "u", "n", "d", "\n">>)

\* w with the commands of the set cmds failing as fails says
Failing(w, fails) == [cmd \in Commands |-> IF cmd \in DOMAIN fails THEN fails[cmd] ELSE w[cmd]]

\* a reachable host and an unreachable one
Worlds == {OkWorld, Failing(OkWorld, [cpu_usage |-> Timeout, memory_usage |-> Refused])}

\* one world per stage position: the first failing command is followed by a
\* later one failing in another way
FailingWorlds ==
    { Failing(OkWorld, [cpu_usage |-> Timeout, memory_usage |-> Refused]),
      Failing(OkWorld, [memory_usage |-> Refused, gpu_usage |-> Timeout]),
      Failing(OkWorld, [load_average |-> Denied, gpu_memory |-> Broken]),
      Failing(OkWorld, [gpu_usage |-> Broken, gpu_memory |-> Timeout]),
      Failing(OkWorld, [gpu_memory |-> Timeout, gpu_processes |-> Denied]),
      Failing(OkWorld, [gpu_processes |-> Denied]) }

\* the host lists the callers pass: check_all, check_gpu_servers, and one
\* host for a direct check_server
HostLists ==
    {config.servers, get_gpu_servers(config.servers)}
    \cup {<<config.servers[i]>> : i \in 1..Len(config.servers)}

NoCriteria == [need_gpu |-> FALSE, max_cpu |-> None, min_memory_gb |-> None]

\* the criteria a caller of find_best_server may give: max_cpu 5.0,
\* min_memory_gb 4
CriteriaSet ==
    [need_gpu : BOOLEAN, max_cpu : {None, Some(FloatOfInt(IntOf(5)))},
     min_memory_gb : {None, Some(IntOf(4))}]

\* outputs of the metric commands that differ in what the filters see: a
\* value under the bound, a value over it, text that does not parse, and
\* text that parses to a NaN
CpuOutputs == {<<"4", ".", "5", "%", "\n">>, <<"9", "0", "\n">>, <<"a", "\n">>, <<"n", "a", "n", "\n">>}

MemOutputs == {<<"1", "0", ".", "5", "\n">>, <<"9", "5", "\n">>, <<"1", "0", ".", "5", "%", "\n">>}

GpuUsageOutputs == {<<"3", "0", "\n", "5", "0", "\n">>, <<"N", "o", "t", " ", "f", "o", "u", "n", "d", "\n">>}

ValueWorlds ==
    {[OkWorld EXCEPT !["cpu_usage"] = Exit(0, c, <<>>),
                     !["memory_usage"] = Exit(0, m, <<>>),
                     !["gpu_usage"] = Exit(0, g, <<>>)] :
        c \in CpuOutputs, m \in MemOutputs, g \in GpuUsageOutputs}

SelectWorlds == ValueWorlds \cup FailingWorlds

\* cpu readings to rank hosts by: a number, a NaN and a lower number
RankOutputs == {<<"5", "\n">>, <<"n", "a", "n", "\n">>, <<"1", "\n">>}

\* a utilization of 401 digits: the mean of the list is beyond the floats
HugeUsage == <<"1">> \o [i \in 1..400 |-> "0"] \o <<"\n">>

RankWorlds ==
    {[OkWorld EXCEPT !["cpu_usage"] = Exit(0, c, <<>>)] : c \in RankOutputs}
    \cup {[OkWorld EXCEPT !["gpu_usage"] = Exit(0, HugeUsage, <<>>)]}

\* the characters of the texts a command may print: digits, the point, the
\* sign, the percent sign, the separators, letters
Alphabet == {"5", "0", ".", "-", "%", " ", "\t", ",", "\n", "a", "n"}

\* every text of at most MaxTextLen characters
Texts == UNION {[1..n -> Alphabet] : n \in 0..MaxTextLen}

\* a used amount of 401 digits over a total of 1
OverflowText == <<"1">> \o [i \in 1..400 |-> "0"] \o <<",", " ", "1", "\n">>

\* the least used amount of 309 digits whose quotient by 1 is beyond the
\* floats, and the amount just below it
EdgeText == <<"1", "7", "9", "7", "6", "9", "3", "1", "3", "4", "8", "6", "2", "3", "1", "5", "8", "0", "7", "9", "3", "7", "2", "8", "9", "7", "1", "4", "0", "5", "3", "0", "3", "4", "1", "5", "0", "7", "9", "9", "3", "4", "1", "3", "2", "7", "1", "0", "0", "3", "7", "8", "2", "6", "9", "3", "6", "1", "7", "3", "7", "7", "8", "9", "8", "0", "4", "4", "4", "9", "6", "8", "2", "9", "2", "7", "6", "4", "7", "5", "0", "9", "4", "6", "6", "4", "9", "0", "1", "7", "9", "7", "7", "5", "8", "7", "2", "0", "7", "0", "9", "6", "3", "3", "0", "2", "8", "6", "4", "1", "6", "6", "9", "2", "8", "8", "7", "9", "1", "0", "9", "4", "6", "5", "5", "5", "5", "4", "7", "8", "5", "1", "9", "4", "0", "4", "0", "2", "6", "3", "0", "6", "5", "7", "4", "8", "8", "6", "7", "1", "5", "0", "5", "8", "2", "0", "6", "8", "1", "9", "0", "8", "9", "0", "2", "0", "0", "0", "7", "0", "8", "3", "8", "3", "6", "7", "6", "2", "7", "3", "8", "5", "4", "8", "4", "5", "8", "1", "7", "7", "1", "1", "5", "3", "1", "7", "6", "4", "4", "7", "5", "7", "3", "0", "2", "7", "0", "0", "6", "9", "8", "5", "5", "5", "7", "1", "3", "6", "6", "9", "5", "9", "6", "2", "2", "8", "4", "2", "9", "1", "4", "8", "1", "9", "8", "6", "0", "8", "3", "4", "9", "3", "6", "4", "7", "5", "2", "9", "2", "7", "1", "9", "0", "7", "4", "1", "6", "8", "4", "4", "4", "3", "6", "5", "5", "1", "0", "7", "0", "4", "3", "4", "2", "7", "1", "1", "5", "5", "9", "6", "9", "9", "5", "0", "8", "0", "9", "3", "0", "4", "2", "8", "8", "0", "1", "7", "7", "9", "0", "4", "1", "7", "4", "4", "9", "7", "7", "9", "2", ",", " ", "1", "\n">>

BelowEdgeText == <<"1", "7", "9", "7", "6", "9", "3", "1", "3", "4", "8", "6", "2", "3", "1", "5", "8", "0", "7", "9", "3", "7", "2", "8", "9", "7", "1", "4", "0", "5", "3", "0", "3", "4", "1", "5", "0", "7", "9", "9", "3", "4", "1", "3", "2", "7", "1", "0", "0", "3", "7", "8", "2", "6", "9", "3", "6", "1", "7", "3", "7", "7", "8", "9", "8", "0", "4", "4", "4", "9", "6", "8", "2", "9", "2", "7", "6", "4", "7", "5", "0", "9", "4", "6", "6", "4", "9", "0", "1", "7", "9", "7", "7", "5", "8", "7", "2", "0", "7", "0", "9", "6", "3", "3", "0", "2", "8", "6", "4", "1", "6", "6", "9", "2", "8", "8", "7", "9", "1", "0", "9", "4", "6", "5", "5", "5", "5", "4", "7", "8", "5", "1", "9", "4", "0", "4", "0", "2", "6", "3", "0", "6", "5", "7", "4", "8", "8", "6", "7", "1", "5", "0", "5", "8", "2", "0", "6", "8", "1", "9", "0", "8", "9", "0", "2", "0", "0", "0", "7", "0", "8", "3", "8", "3", "6", "7", "6", "2", "7", "3", "8", "5", "4", "8", "4", "5", "8", "1", "7", "7", "1", "1", "5", "3", "1", "7", "6", "4", "4", "7", "5", "7", "3", "0", "2", "7", "0", "0", "6", "9", "8", "5", "5", "5", "7", "1", "3", "6", "6", "9", "5", "9", "6", "2", "2", "8", "4", "2", "9", "1", "4", "8", "1", "9", "8", "6", "0", "8", "3", "4", "9", "3", "6", "4", "7", "5", "2", "9", "2", "7", "1", "9", "0", "7", "4", "1", "6", "8", "4", "4", "4", "3", "6", "5", "5", "1", "0", "7", "0", "4", "3", "4", "2", "7", "1", "1", "5", "5", "9", "6", "9", "9", "5", "0", "8", "0", "9", "3", "0", "4", "2", "8", "8", "0", "1", "7", "7", "9", "0", "4", "1", "7", "4", "4", "9", "7", "7", "9", "1", ",", " ", "1", "\n">>

\* a used amount of one digit more than int() converts
LongText == <<"1">> \o [i \in 1..MaxStrDigits |-> "0"] \o <<",", " ", "1", "\n">>

\* a quotient that the rounding to one decimal takes down: 6.25 to 6.2
TieText == <<"1", ",", " ", "1", "6", "\n">>

NotFoundText == <<"N", "o", "t", " ", "f", "o", "u", "n", "d", "\n">>

\* the marker in capitals after a line that parses
CapitalsText == <<"5", ",", " ", "7", ",", " ", "9", "\n", "N", "V", "I", "D", "I", "A", "-", "S", "M", "I", " ", "N", "O", "T", " ", "F", "O", "U", "N", "D", "\n">>

\* a reading in Extended Arabic-Indic digits between a no-break space and
\* a next-line character
UnicodeText == <<" ", "۵", "۰", "">>

\* readings with decimals that no double holds exactly
DecimalWorld ==
    Failing(OkWorld, [cpu_usage |-> Exit(0, <<"\t", "1", "2", ".", "3", "%", "\n">>, <<>>),
                      memory_usage |-> Exit(0, <<"4", "5", ".", "2", "\n">>, <<>>),
                      load_average |-> Exit(0, <<"0", ".", "1", "0", "\t", "0", ".", "2", "0", "\t", "0", ".", "3", "0", "\n">>, <<>>),
                      gpu_memory |-> Exit(0, <<"5", "1", "2", "0", ",", " ", "8", "1", "9", "2", "0", "\n">>, <<>>)])

\* every command prints the same text and exits 0
TextWorld(text) == [cmd \in Commands |-> Exit(0, text, <<>>)]

\* a host that answers no command in time
TimeoutWorld == [cmd \in Commands |-> Timeout]

\* a healthy host whose gpu_memory command prints the given amounts
MemoryWorld(text) == Failing(OkWorld, [gpu_memory |-> Exit(0, text, <<>>)])

OverflowWorld == MemoryWorld(OverflowText)

TextWorlds ==
    {TextWorld(text) : text \in Texts \cup {NotFoundText, CapitalsText, TieText, UnicodeText}}
    \cup {MemoryWorld(text) : text \in {OverflowText, EdgeText, BelowEdgeText, LongText}}
    \cup {DecimalWorld}

\* what ssh may write to standard error: up to two of these pieces
StderrPieces == {UnresolvedPhrase, RefusedPhrase, DeniedPhrase, <<"o", "o", "p", "s">>, <<"\t", "\n">>}

StderrTexts ==
    {<<>>} \cup StderrPieces \cup {a \o b : a \in StderrPieces, b \in StderrPieces}

\* the texts of the exceptions subprocess.run raises by itself
DecodeMessage == <<"'utf-8' codec can't decode byte 0xff in position 0: invalid start byte">>

SpawnMessage == <<"[Errno 2] No such file or directory: 'ssh'">>

\* the outcomes of one invocation: a timeout, an output that is not UTF-8,
\* no ssh to run, or an exit with some code, output and standard error
SshOutcomes ==
    {Timeout, SpawnError(SpawnMessage)}
    \cup {DecodeError(rc, DecodeMessage) : rc \in {0, 255}}
    \cup {Exit(rc, out, err) : rc \in {0, 1, 255}, out \in {<<>>, <<" ", "\t", "5", "\n">>},
                               err \in StderrTexts}

\* one command of an otherwise healthy host ends in the given outcome
SshWorlds == {Failing(OkWorld, [c \in {cmd} |-> o]) : cmd \in Commands, o \in SshOutcomes}

CheckWorlds == TextWorlds \cup SshWorlds \cup FailingWorlds

(***************************************************************************)
(* State                                                                   *)
(***************************************************************************)
Fleet == <<ServerConfig("g1", "10.0.0.5", TRUE), ServerConfig("c1", "c1", FALSE)>>

Configs == {[servers |-> Fleet, gpu_processes |-> p] : p \in BOOLEAN}

\* a fleet of n hosts, named by a pattern as in Config._parse_servers; the
\* first gpus of them have a GPU
PoolFleet(n, gpus) ==
    [i \in 1..n |-> ServerConfig(<<"orca", i>>, <<"orca", i>>, i <= gpus)]

NoBest == [kind |-> "pending", value |-> None]

\* a check_server coroutine.  What happened to it is recorded in: readAt, the
\* time it was called (its cache test); seenAt, the checked_at of the entry
\* the cache then held for its host (-1: no entry); takenAt, while its job
\* runs, the time a worker took it; checked_at, the time the job read when
\* it began;
\* outs, the remote world its commands ran against; issued, the commands it
\* ran, in order
NewTask(c, i, server, use_cache) ==
    [call |-> c, idx |-> i, server |-> server, use_cache |-> use_cache,
     pc |-> "new", hit |-> FALSE, takenAt |-> -1, checked_at |-> -1,
     result |-> None, readAt |-> -1, seenAt |-> -1, outs |-> None, issued |-> <<>>]

NewCall(kind, servers, use_cache, crit) ==
    [kind |-> kind, servers |-> servers, use_cache |-> use_cache, criteria |-> crit,
     first |-> Len(tasks), status |-> "pending", overtaken |-> FALSE,
     results |-> <<>>, best |-> NoBest]

TaskIds(c) == (calls[c].first + 1)..(calls[c].first + Len(calls[c].servers))

Running == {t \in 1..Len(tasks) : tasks[t].pc = "running"}

InitWith(cfg) ==
    /\ config = cfg
    /\ now = 0
    /\ cache = <<>>
    /\ tasks = <<>>
    /\ calls = <<>>
    /\ queue = <<>>

Init == InitWith([servers |-> Fleet, gpu_processes |-> TRUE])

(***************************************************************************)
(* ServerChecker.check_servers / check_server                              *)
(***************************************************************************)
\* tasks = [self.check_server(server, use_cache) for server in servers]
Dispatch(kind, servers, use_cache, crit) ==
    /\ calls' = Append(calls, NewCall(kind, servers, use_cache, crit))
    /\ tasks' = tasks \o [i \in 1..Len(servers) |->
                              NewTask(Len(calls) + 1, i, servers[i], use_cache)]
    /\ UNCHANGED <<config, now, cache, queue>>

CallCheckServers(servers, use_cache) ==
    /\ Len(calls) < MaxCalls
    /\ Dispatch("check_servers", servers, use_cache, NoCriteria)

\* one check_server call (here as the first call of a run)
CallCheckServer(server, use_cache) ==
    /\ calls = <<>>
    /\ Dispatch("check_servers", <<server>>, use_cache, NoCriteria)

\* check_all: every configured host (here as the first call of a run)
CheckAll(use_cache) ==
    /\ calls = <<>>
    /\ Dispatch("check_servers", config.servers, use_cache, NoCriteria)

\* find_best_server up to its await of check_servers (here as the first call
\* of a run)
FindBestServer(crit, use_cache) ==
    /\ calls = <<>>
    /\ Dispatch("find_best_server", Candidates(config, crit.need_gpu), use_cache, crit)

\* a freshness test that still serves an entry of age exactly ttl
IsFreshInclusive(cached, time) == time - cached["checked_at"] <= TTL

\* the freshness test of a cache read
IsFresh(cached, time) == time - cached["checked_at"] < TTL

\* a cache test that serves a fresh entry whatever the use_cache flag
CacheHitForced(use_cache, name, time) ==
    name \in DOMAIN cache /\ IsFresh(cache[name], time)

\* the cache test at the head of check_server
CacheHit(use_cache, name, time) ==
    use_cache /\ name \in DOMAIN cache /\ IsFresh(cache[name], time)

\* task t returns while an earlier coroutine of its call has not
Overtakes(t) ==
    \E u \in 1..(t - 1) : tasks[u].call = tasks[t].call /\ tasks[u].pc # "returned"

\* a first segment that, on a hit, also drops the entries of the cache that
\* are no longer fresh
StartCheckPruning(t) ==
    LET tk == tasks[t]
        name == tk.server.name
        read == [tk EXCEPT !.readAt = now,
                           !.seenAt = IF name \in DOMAIN cache
                                      THEN cache[name]["checked_at"] ELSE -1]
    IN  /\ tk.pc = "new"
        /\ tk.idx > 1 => tasks[t - 1].pc # "new"
        /\ IF CacheHit(tk.use_cache, name, now)
           THEN /\ tasks' = [tasks EXCEPT ![t] =
                      [read EXCEPT !.pc = "returned", !.hit = TRUE,
                                   !.result = Some(cache[name])]]
                /\ queue' = queue
                /\ calls' = [calls EXCEPT ![tk.call].overtaken = @ \/ Overtakes(t)]
                /\ cache' = [n \in {m \in DOMAIN cache : IsFresh(cache[m], now)} |->
                                 cache[n]]
           ELSE /\ tasks' = [tasks EXCEPT ![t] = [read EXCEPT !.pc = "queued"]]
                /\ queue' = Append(queue, t)
                /\ calls' = calls
                /\ cache' = cache
        /\ UNCHANGED <<config, now>>

\* the first segment of check_server, up to its return or its await; the
\* coroutines of one gather start in list order
StartCheck(t) ==
    LET tk == tasks[t]
        name == tk.server.name
        read == [tk EXCEPT !.readAt = now,
                           !.seenAt = IF name \in DOMAIN cache
                                      THEN cache[name]["checked_at"] ELSE -1]
    IN  /\ tk.pc = "new"
        /\ tk.idx > 1 => tasks[t - 1].pc # "new"
        /\ IF CacheHit(tk.use_cache, name, now)
           THEN /\ tasks' = [tasks EXCEPT ![t] =
                      [read EXCEPT !.pc = "returned", !.hit = TRUE,
                                   !.result = Some(cache[name])]]
                /\ queue' = queue
                /\ calls' = [calls EXCEPT ![tk.call].overtaken = @ \/ Overtakes(t)]
           ELSE /\ tasks' = [tasks EXCEPT ![t] = [read EXCEPT !.pc = "queued"]]
                /\ queue' = Append(queue, t)
                /\ calls' = calls
        /\ UNCHANGED <<config, now, cache>>

\* a pool that starts a thread for every task
WorkerAlwaysFree == TRUE

\* a pool whose threads never come back: a thread that has run one check
\* takes no other
WorkerLeaked ==
    Cardinality({t \in 1..Len(tasks) : tasks[t].pc \in {"running", "done", "returned"}
                                         /\ ~tasks[t].hit}) < max_workers

\* a worker thread of the pool is free to take the next queued task
WorkerFree == Cardinality(Running) < max_workers

\* a worker thread takes the head of the executor's queue: from now on the
\* thread runs _check_server_sync for task t
WorkerStart(t) ==
    /\ queue # <<>>
    /\ t = Head(queue)
    /\ WorkerFree
    /\ queue' = Tail(queue)
    /\ tasks' = [tasks EXCEPT ![t] = [@ EXCEPT !.pc = "running", !.takenAt = now]]
    /\ UNCHANGED <<config, now, cache, calls>>

\* a store that keeps only the snapshots of reachable hosts
CacheStoreOnline(name, data) == IF data["online"] THEN Put(cache, name, data) ELSE cache

\* a store that updates the entry field by field: the fields of the old
\* entry that the new snapshot lacks stay
CacheStoreMerged(name, data) ==
    IF name \in DOMAIN cache
    THEN Put(cache, name,
             [k \in DOMAIN cache[name] \cup DOMAIN data |->
                 IF k \in DOMAIN data THEN data[k] ELSE cache[name][k]])
    ELSE Put(cache, name, data)

\* a store that keeps whichever snapshot has the later capture time
CacheStoreNewest(name, data) ==
    IF name \in DOMAIN cache /\ cache[name]["checked_at"] > data["checked_at"]
    THEN cache
    ELSE Put(cache, name, data)

\* self._cache[server.name] = data
CacheStore(name, data) == Put(cache, name, data)

\* _check_server_sync returns in its worker thread.  The function read the
\* clock once, when it began (checked_at): at some moment since the thread
\* took the job, which the scheduling of the thread decides.  It then ran
\* its commands against the remote world outs; nothing it touched is shared
\* with another thread.  Now the thread sets the result of the future, hands
\* the coroutine that awaits it to the event loop and is free for the next
\* job
WorkerEnd(t, outs) ==
    LET tk == tasks[t]
        Finish(at, r) ==
            tasks' = [tasks EXCEPT ![t] =
                [tk EXCEPT !.pc = "done", !.takenAt = -1, !.checked_at = at,
                           !.result = Some(r.data),
                           !.outs = Some(outs), !.issued = r.issued]]
    IN  /\ tk.pc = "running"
        /\ \E at \in tk.takenAt..now :
               Finish(at, _check_server_sync(config, tk.server, at, outs))
        /\ UNCHANGED <<config, now, cache, calls, queue>>

\* the event loop resumes check_server after its await: it stores the
\* snapshot and returns it.  The coroutines resume in the order in which the
\* threads handed them over, which is for the threads to decide.
CheckComplete(t) ==
    /\ tasks[t].pc = "done"
    /\ tasks' = [tasks EXCEPT ![t].pc = "returned"]
    /\ cache' = CacheStore(tasks[t].server.name, tasks[t].result[1])
    /\ calls' = [calls EXCEPT ![tasks[t].call].overtaken = @ \/ Overtakes(t)]
    /\ UNCHANGED <<config, now, queue>>

\* asyncio.gather is done when every awaited coroutine has returned
GatherDone(c) == \A t \in TaskIds(c) : tasks[t].pc = "returned"

\* the results in completion order, as far as the call records it: reversed
\* when a later coroutine returned before an earlier one
GatherAsCompleted(c) ==
    LET inOrder == [i \in 1..Len(calls[c].servers) |-> tasks[calls[c].first + i].result[1]]
    IN  IF calls[c].overtaken THEN Reverse(inOrder) ELSE inOrder

\* its value: the results in the order of the awaitables
Gather(c) == [i \in 1..Len(calls[c].servers) |-> tasks[calls[c].first + i].result[1]]

\* check_servers returns; find_best_server goes on to select
CallReturn(c) ==
    LET results == Gather(c)
    IN  /\ calls[c].status = "pending"
        /\ GatherDone(c)
        /\ calls' = [calls EXCEPT ![c] =
               [@ EXCEPT !.status = "returned", !.results = results,
                         !.best = IF calls[c].kind = "find_best_server"
                                  THEN SelectBest(results, calls[c].criteria)
                                  ELSE NoBest]]
        /\ UNCHANGED <<config, now, cache, tasks, queue>>

\* a clear that drops only the entry of the first configured host
ClearCacheOne ==
    /\ cache' = [n \in DOMAIN cache \ {config.servers[1].name} |-> cache[n]]
    /\ UNCHANGED <<config, now, tasks, calls, queue>>

\* ServerChecker.clear_cache
ClearCache ==
    /\ cache' = <<>>
    /\ UNCHANGED <<config, now, tasks, calls, queue>>

\* the clock advances
Tick ==
    /\ now < MaxTime
    /\ now' = now + 1
    /\ UNCHANGED <<config, cache, tasks, calls, queue>>

Next ==
    \/ \E servers \in HostLists, use_cache \in BOOLEAN :
           Len(tasks) + Len(servers) <= MaxTasks /\ CallCheckServers(servers, use_cache)
    \/ \E t \in 1..Len(tasks) : StartCheck(t)
    \/ \E t \in 1..Len(tasks) : WorkerStart(t)
    \/ \E t \in 1..Len(tasks), outs \in Worlds : WorkerEnd(t, outs)
    \/ \E t \in 1..Len(tasks) : CheckComplete(t)
    \/ \E c \in 1..Len(calls) : CallReturn(c)
    \/ Tick

Spec == Init /\ [][Next]_vars

(***************************************************************************)
(* Two check_all calls, with use_cache and without it, while the clock     *)
(* advances and every host times out: the second call finds entries that   *)
(* are fresh, entries that have expired and hosts without an entry         *)
(***************************************************************************)
NextFresh ==
    \/ \E use_cache \in BOOLEAN : CallCheckServers(config.servers, use_cache)
    \/ \E t \in 1..Len(tasks) : StartCheck(t)
    \/ \E t \in 1..Len(tasks) : WorkerStart(t)
    \/ \E t \in 1..Len(tasks) : WorkerEnd(t, TimeoutWorld)
    \/ \E t \in 1..Len(tasks) : CheckComplete(t)
    \/ \E c \in 1..Len(calls) : CallReturn(c)
    \/ Tick

SpecFresh == Init /\ [][NextFresh]_vars

(***************************************************************************)
(* One find_best_server call over every remote world that matters to the   *)
(* filters and to the stages of a check; the clock stands still            *)
(***************************************************************************)
InitSelect == \E cfg \in Configs : InitWith(cfg)

NextSelect ==
    \/ \E crit \in CriteriaSet, use_cache \in BOOLEAN : FindBestServer(crit, use_cache)
    \/ \E t \in 1..Len(tasks) : StartCheck(t)
    \/ \E t \in 1..Len(tasks) : WorkerStart(t)
    \/ \E t \in 1..Len(tasks), outs \in SelectWorlds : WorkerEnd(t, outs)
    \/ \E t \in 1..Len(tasks) : CheckComplete(t)
    \/ \E c \in 1..Len(calls) : CallReturn(c)

SpecSelect == InitSelect /\ [][NextSelect]_vars

(***************************************************************************)
(* One find_best_server call over three hosts whose cpu readings are       *)
(* numbers or a NaN; the clock stands still                                *)
(***************************************************************************)
RankFleet ==
    <<ServerConfig("a", "a", TRUE), ServerConfig("b", "b", FALSE), ServerConfig("c", "c", FALSE)>>

InitRank == InitWith([servers |-> RankFleet, gpu_processes |-> TRUE])

NextRank ==
    \/ \E crit \in CriteriaSet, use_cache \in BOOLEAN : FindBestServer(crit, use_cache)
    \/ \E t \in 1..Len(tasks) : StartCheck(t)
    \/ \E t \in 1..Len(tasks) : WorkerStart(t)
    \/ \E t \in 1..Len(tasks), outs \in RankWorlds : WorkerEnd(t, outs)
    \/ \E t \in 1..Len(tasks) : CheckComplete(t)
    \/ \E c \in 1..Len(calls) : CallReturn(c)

SpecRank == InitRank /\ [][NextRank]_vars

(***************************************************************************)
(* One find_best_server call over a fleet of TieHosts hosts without GPU:   *)
(* every host prints its cpu reading of TieReadings or the reading 5       *)
(***************************************************************************)
\* the cpu readings of a fleet in which the binary insertion of list.sort
\* passes over an element behind a NaN key
TieReadings ==
    <<<<"5", "\n">>, <<"2", "\n">>, <<"n", "a", "n", "\n">>, <<"5", "\n">>,
      <<"n", "a", "n", "\n">>, <<"1", "\n">>, <<"1", "\n">>>>

TieHosts == 7

TieFleet == [i \in 1..TieHosts |-> ServerConfig(<<"tie", i>>, <<"tie", i>>, FALSE)]

\* what the host of task t may answer
TieWorlds(t) ==
    {[OkWorld EXCEPT !["cpu_usage"] = Exit(0, c, <<>>)] :
        c \in {<<"5", "\n">>} \cup (IF tasks[t].idx <= Len(TieReadings)
                                  THEN {TieReadings[tasks[t].idx]} ELSE {})}

InitTie == InitWith([servers |-> TieFleet, gpu_processes |-> TRUE])

NextTie ==
    \/ FindBestServer(NoCriteria, TRUE)
    \/ \E t \in 1..Len(tasks) : StartCheck(t)
    \/ \E t \in 1..Len(tasks) : WorkerStart(t)
    \/ \E t \in 1..Len(tasks) : \E outs \in TieWorlds(t) : WorkerEnd(t, outs)
    \/ \E t \in 1..Len(tasks) : CheckComplete(t)
    \/ \E c \in 1..Len(calls) : CallReturn(c)

SpecTie == InitTie /\ [][NextTie]_vars

(***************************************************************************)
(* check_all and check_gpu_servers over a fleet larger than the worker     *)
(* pool, in either order and overlapping in any way: check_all alone asks  *)
(* for more checks than the pool has workers, and the two calls together   *)
(* for one more.  Every host times out and the clock stands still.  A run  *)
(* is followed until MaxEnds jobs have ended                               *)
(***************************************************************************)
PoolHosts == 11   \* the hosts of the fleet

GpuHosts == 1     \* how many of them have a GPU

PoolTasks == 12   \* check_server coroutines created in one run

MaxEnds == 3      \* jobs that end in one run

InitPool == InitWith([servers |-> PoolFleet(PoolHosts, GpuHosts), gpu_processes |-> TRUE])

\* the jobs that have ended
Ended == {t \in 1..Len(tasks) : tasks[t].pc \in {"done", "returned"} /\ ~tasks[t].hit}

NextPool ==
    \/ \E servers \in {config.servers, get_gpu_servers(config.servers)},
          use_cache \in BOOLEAN :
           Len(tasks) + Len(servers) <= PoolTasks /\ CallCheckServers(servers, use_cache)
    \/ \E t \in 1..Len(tasks) : StartCheck(t)
    \/ \E t \in 1..Len(tasks) : WorkerStart(t)
    \/ \E t \in 1..Len(tasks) : Cardinality(Ended) < MaxEnds /\ WorkerEnd(t, TimeoutWorld)
    \/ \E t \in 1..Len(tasks) : CheckComplete(t)
    \/ \E c \in 1..Len(calls) : CallReturn(c)

SpecPool == InitPool /\ [][NextPool]_vars

(***************************************************************************)
(* One check of one host against every text a command may print and every  *)
(* outcome an invocation may have; the clock stands still                  *)
(***************************************************************************)
NextCheck ==
    \/ \E i \in 1..Len(config.servers), use_cache \in BOOLEAN :
           CallCheckServer(config.servers[i], use_cache)
    \/ \E t \in 1..Len(tasks) : StartCheck(t)
    \/ \E t \in 1..Len(tasks) : WorkerStart(t)
    \/ \E t \in 1..Len(tasks), outs \in CheckWorlds : WorkerEnd(t, outs)
    \/ \E t \in 1..Len(tasks) : CheckComplete(t)
    \/ \E c \in 1..Len(calls) : CallReturn(c)

SpecCheck == InitSelect /\ [][NextCheck]_vars

(***************************************************************************)
(* Batch calls run to their end under fair scheduling, over two fleets.    *)
(* In the large one every host has a GPU, so that check_all and            *)
(* check_gpu_servers ask for the same hosts, more than the pool has        *)
(* workers.  In the small one the two calls differ and overlap in any way. *)
(* At most LiveTasks checks are asked for in a run.  Every remote command  *)
(* times out and the clock stands still                                    *)
(***************************************************************************)
LiveHosts == 3    \* the hosts of the small fleet

LiveTasks == 11   \* check_server coroutines created in one run

LiveConfigs ==
    {[servers |-> PoolFleet(PoolHosts, PoolHosts), gpu_processes |-> TRUE],
     [servers |-> PoolFleet(LiveHosts, GpuHosts), gpu_processes |-> TRUE]}

InitLive == \E cfg \in LiveConfigs : InitWith(cfg)

\* a step of the program: of the event loop or of a worker thread
Step ==
    \/ \E t \in 1..Len(tasks) : StartCheck(t)
    \/ \E t \in 1..Len(tasks) : WorkerStart(t)
    \/ \E t \in 1..Len(tasks) : WorkerEnd(t, TimeoutWorld)
    \/ \E t \in 1..Len(tasks) : CheckComplete(t)
    \/ \E c \in 1..Len(calls) : CallReturn(c)

\* the calls of the scout_all and scout_gpu tools: check_all() and
\* check_gpu_servers(), with the default use_cache
NextLive ==
    \/ \E servers \in {config.servers, get_gpu_servers(config.servers)} :
           Len(tasks) + Len(servers) <= LiveTasks /\ CallCheckServers(servers, TRUE)
    \/ Step

\* the event loop and the worker threads keep running: the program does not
\* stand still while one of its steps is possible
Fairness == WF_vars(Step)

SpecLive == InitLive /\ [][NextLive]_vars /\ Fairness

(***************************************************************************)
(* Two check_servers calls with clear_cache called at any moment: before,  *)
(* between and during the checks; the clock stands still, so that every    *)
(* entry stays fresh                                                       *)
(***************************************************************************)
NextClear ==
    \/ \E servers \in HostLists, use_cache \in BOOLEAN : CallCheckServers(servers, use_cache)
    \/ \E t \in 1..Len(tasks) : StartCheck(t)
    \/ \E t \in 1..Len(tasks) : WorkerStart(t)
    \/ \E t \in 1..Len(tasks), outs \in Worlds : WorkerEnd(t, outs)
    \/ \E t \in 1..Len(tasks) : CheckComplete(t)
    \/ \E c \in 1..Len(calls) : CallReturn(c)
    \/ ClearCache

SpecClear == Init /\ [][NextClear]_vars

(***************************************************************************)
(* Vocabulary of the claims                                                *)
(***************************************************************************)
TaskSet == 1..Len(tasks)

CallSet == 1..Len(calls)

Returned(c) == calls[c].status = "returned"

\* subprocess.run returned a process that exited 0
Succeeds(proc) == proc.kind = "exit" /\ proc.returncode = 0

\* the command exited 0, whatever it printed
ExitedZero(proc) == proc.kind \in {"exit", "decode"} /\ proc.returncode = 0

\* x <= y on Python numbers: false when either is a NaN
AtMost(x, y) ==
    /\ ~(IsFloat(x) /\ x.kind = "nan")
    /\ ~(IsFloat(y) /\ y.kind = "nan")
    /\ ~NumLess(y, x)

\* task t ran a remote check (it was not served from the cache) and finished
Ran(t) == tasks[t].pc = "returned" /\ ~tasks[t].hit

\* task t has issued a remote command sequence
Issued(t) == tasks[t].pc \in {"running", "done", "returned"} /\ ~tasks[t].hit

MandatoryOk(outs) == \A i \in 1..Len(MandatoryCommands) : Succeeds(outs[MandatoryCommands[i]])

\* the first mandatory command that fails in the world outs
FirstFailed(outs) ==
    MandatoryCommands[CHOOSE i \in 1..Len(MandatoryCommands) :
        /\ ~Succeeds(outs[MandatoryCommands[i]])
        /\ \A j \in 1..(i - 1) : Succeeds(outs[MandatoryCommands[j]])]

GpuKeys == {"gpu_usage", "gpu_memory", "gpu_processes", "gpu_error"}

\* a GPU-stage command that the check runs fails in the world outs
GpuStageFails(outs) ==
    \E i \in 1..Len(GpuCommands(config)) : ~Succeeds(outs[GpuCommands(config)[i]])

(***************************************************************************)
(* C1                                                                      *)
(***************************************************************************)
\* C1: a returned check_servers call has one result per requested host, and
\* its i-th result is the snapshot that the check of the i-th host returned,
\* whatever the order in which the checks completed.
C1_ResultsInRequestOrder ==
    \A c \in CallSet : Returned(c) =>
        /\ Len(calls[c].results) = Len(calls[c].servers)
        /\ \A i \in 1..Len(calls[c].servers) :
              /\ calls[c].results[i]["name"] = calls[c].servers[i].name
              /\ calls[c].results[i]["host"] = calls[c].servers[i].host
              /\ calls[c].results[i] = tasks[calls[c].first + i].result[1]

\* a batch of two hosts has returned although the check of the second host
\* completed before the check of the first
C1_Witness ==
    \E c \in CallSet :
        Returned(c) /\ Len(calls[c].servers) = 2 /\ calls[c].overtaken

(***************************************************************************)
(* C2                                                                      *)
(***************************************************************************)
\* C2: of two check_server(h, use_cache=True) calls made less than ttl apart,
\* at most one issues a remote command sequence (the model never clears the
\* cache in between).
C2_AtMostOneSequence ==
    \A t, u \in TaskSet :
        ( /\ t # u
          /\ tasks[t].server.name = tasks[u].server.name
          /\ tasks[t].use_cache /\ tasks[u].use_cache
          /\ tasks[t].readAt >= 0 /\ tasks[u].readAt >= tasks[t].readAt
          /\ tasks[u].readAt - tasks[t].readAt < TTL )
        => ~(Issued(t) /\ Issued(u))

(***************************************************************************)
(* C3                                                                      *)
(***************************************************************************)
\* C3: a snapshot served from the cache was younger than ttl when it was
\* read, and a call that found an entry of age ttl or more was not served
\* from the cache: it went on to a remote check.
C3_NoStaleRead ==
    \A t \in TaskSet :
        /\ tasks[t].hit =>
              /\ tasks[t].readAt - tasks[t].result[1]["checked_at"] < TTL
              /\ tasks[t].result[1]["checked_at"] = tasks[t].seenAt
        /\ ( /\ tasks[t].use_cache
             /\ tasks[t].seenAt >= 0
             /\ tasks[t].readAt - tasks[t].seenAt >= TTL )
           => /\ ~tasks[t].hit
              /\ tasks[t].pc \in {"queued", "running", "done", "returned"}
              /\ tasks[t].pc = "returned" => tasks[t].result[1]["checked_at"] >= tasks[t].readAt

\* one call was served from the cache with an entry that was no longer new
\* but still fresh, while another, which found an entry that had expired, has
\* run a fresh remote check
C3_Witness ==
    \E t, u \in TaskSet :
        /\ tasks[t].hit /\ tasks[t].readAt > tasks[t].seenAt
        /\ tasks[u].use_cache /\ tasks[u].seenAt >= 0 /\ Ran(u)
        /\ tasks[u].readAt - tasks[u].seenAt >= TTL

(***************************************************************************)
(* C4 and C5                                                               *)
(***************************************************************************)
\* C4: a check in which a mandatory command failed yields online = false,
\* the error of the first command that failed, and none of gpu_usage,
\* gpu_memory, gpu_processes, gpu_error, on GPU hosts too.
C4_MandatoryFailureOffline ==
    \A t \in TaskSet :
        (Ran(t) /\ ~MandatoryOk(tasks[t].outs[1])) =>
            LET data == tasks[t].result[1]
                first == FirstFailed(tasks[t].outs[1])
            IN  /\ "online" \in DOMAIN data /\ data["online"] = FALSE
                /\ "error" \in DOMAIN data
                /\ data["error"] = _run_ssh_command(tasks[t].server, tasks[t].outs[1][first]).exc
                /\ DOMAIN data \cap GpuKeys = {}

\* the check of a GPU host has finished after its cpu command succeeded and
\* its memory command failed, in a world where the GPU commands would work
C4_Witness ==
    \E t \in TaskSet :
        /\ Ran(t) /\ tasks[t].server.has_gpu
        /\ Succeeds(tasks[t].outs[1]["cpu_usage"])
        /\ ~Succeeds(tasks[t].outs[1]["memory_usage"])
        /\ Succeeds(tasks[t].outs[1]["gpu_memory"])
        /\ tasks[t].result[1]["online"] = FALSE

\* C5: a check of a GPU host in which the mandatory commands succeeded and
\* a GPU-stage command failed yields online = true, a populated gpu_error
\* and no error field.
C5_GpuFailureStaysOnline ==
    \A t \in TaskSet :
        ( /\ Ran(t) /\ tasks[t].server.has_gpu
          /\ MandatoryOk(tasks[t].outs[1])
          /\ GpuStageFails(tasks[t].outs[1]) ) =>
            LET data == tasks[t].result[1]
            IN  /\ "online" \in DOMAIN data /\ data["online"] = TRUE
                /\ "gpu_error" \in DOMAIN data /\ data["gpu_error"] # <<>>
                /\ "error" \notin DOMAIN data

\* the check of a GPU host has finished after its last GPU command,
\* gpu_processes, failed
C5_Witness ==
    \E t \in TaskSet :
        /\ Ran(t) /\ tasks[t].server.has_gpu /\ config.gpu_processes
        /\ MandatoryOk(tasks[t].outs[1])
        /\ Succeeds(tasks[t].outs[1]["gpu_usage"])
        /\ Succeeds(tasks[t].outs[1]["gpu_memory"])
        /\ ~Succeeds(tasks[t].outs[1]["gpu_processes"])
        /\ "gpu_error" \in DOMAIN tasks[t].result[1]

(***************************************************************************)
(* C6                                                                      *)
(***************************************************************************)
\* C6: the step that completes a remote check, with use_cache or without
\* it, leaves the check's snapshot in the cache under the host's name; and a
\* check_server(h, use_cache=True) called while the entry of h is younger
\* than ttl returns that entry, online or not, and issues no remote command.
C6_EveryCheckIsCached ==
    [][ \A t \in TaskSet :
          /\ (tasks[t].pc = "done" /\ tasks'[t].pc = "returned") =>
                /\ tasks[t].server.name \in DOMAIN cache'
                /\ cache'[tasks[t].server.name] = tasks'[t].result[1]
          /\ ( /\ tasks[t].pc = "new" /\ tasks'[t].pc # "new"
               /\ tasks[t].use_cache
               /\ tasks[t].server.name \in DOMAIN cache
               /\ now - cache[tasks[t].server.name]["checked_at"] < TTL ) =>
                /\ tasks'[t].pc = "returned"
                /\ tasks'[t].result = Some(cache[tasks[t].server.name])
                /\ tasks'[t].checked_at = -1
                /\ queue' = queue /\ cache' = cache ]_vars

\* a call has been served the snapshot of an unreachable host from the
\* cache, which a check made with use_cache = False had stored
C6_Witness ==
    \E t, u \in TaskSet :
        /\ tasks[t].hit /\ tasks[t].result[1]["online"] = FALSE
        /\ Ran(u) /\ ~tasks[u].use_cache
        /\ tasks[u].result = tasks[t].result

(***************************************************************************)
(* C7                                                                      *)
(***************************************************************************)
\* C7: at most max_workers (10) checks execute remote commands at once,
\* however many hosts and calls there are; the checks that are waiting for a
\* worker are exactly those in the queue, and the one at its head can be
\* taken as soon as fewer than max_workers checks are executing.
C7_BoundedWorkers ==
    /\ Cardinality(Running) <= max_workers
    /\ \A t \in TaskSet : tasks[t].pc = "queued" <=> \E i \in 1..Len(queue) : queue[i] = t
    /\ (queue # <<>> /\ Cardinality(Running) < max_workers)
          => ENABLED WorkerStart(Head(queue))

\* two batch calls overlap, neither has returned, and checks of both are
\* executing: every worker is busy, one of them with a check that had to
\* wait for a job to end, and a check beyond the capacity is still waiting
C7_Witness ==
    /\ Len(calls) = 2
    /\ \A c \in CallSet :
          calls[c].status = "pending" /\ \E t \in Running : tasks[t].call = c
    /\ Cardinality(Running) = max_workers
    /\ queue # <<>>
    /\ Ended # {}

(***************************************************************************)
(* C8                                                                      *)
(***************************************************************************)
\* C8: a check_servers call returns only when every check it dispatched has
\* returned, it can return as soon as they have, and each host's result is
\* decided by that host's commands alone: of the checks that ran, exactly
\* those with a failed mandatory command are online = false.
C8_BatchIsolation ==
    \A c \in CallSet :
        /\ Returned(c) => \A t \in TaskIds(c) : tasks[t].pc = "returned"
        /\ (calls[c].status = "pending" /\ \A t \in TaskIds(c) : tasks[t].pc = "returned")
              => ENABLED CallReturn(c)
        /\ Returned(c) =>
              \A i \in 1..Len(calls[c].servers) :
                  LET t == calls[c].first + i
                  IN  /\ "online" \in DOMAIN calls[c].results[i]
                      /\ Ran(t) =>
                            (calls[c].results[i]["online"] = MandatoryOk(tasks[t].outs[1]))

\* a batch of two hosts has returned in which one host's check failed and
\* the other's succeeded
C8_Witness ==
    \E c \in CallSet :
        /\ Returned(c) /\ Len(calls[c].servers) = 2
        /\ \A t \in TaskIds(c) : Ran(t)
        /\ \E i, j \in 1..2 :
              /\ calls[c].results[i]["online"] = FALSE
              /\ calls[c].results[j]["online"] = TRUE

(***************************************************************************)
(* C9 and C10                                                              *)
(***************************************************************************)
\* C9: find_best_server ends by returning a snapshot or none, never in an
\* error.
C9_NeverRaises ==
    \A c \in CallSet :
        (Returned(c) /\ calls[c].kind = "find_best_server") => calls[c].best.kind = "return"

\* what the claim requires of a returned snapshot
Satisfies(server, crit) ==
    /\ "online" \in DOMAIN server /\ server["online"]
    /\ crit.max_cpu # None =>
          /\ "cpu_usage" \in DOMAIN server /\ server["cpu_usage"] # None
          /\ AtMost(server["cpu_usage"][1], crit.max_cpu[1])
    /\ crit.min_memory_gb # None =>
          /\ "memory_usage" \in DOMAIN server /\ server["memory_usage"] # None
          /\ AtMost(server["memory_usage"][1], IntOf(80))
    /\ crit.need_gpu =>
          /\ server["has_gpu"]
          /\ "gpu_usage" \in DOMAIN server /\ server["gpu_usage"] # None

\* C10: a snapshot returned by find_best_server is one of the batch and
\* satisfies every active constraint, and find_best_server returns none
\* exactly when no snapshot of the batch satisfies them.
C10_SelectedSatisfiesCriteria ==
    \A c \in CallSet :
        (Returned(c) /\ calls[c].kind = "find_best_server") =>
            LET best == calls[c].best
                crit == calls[c].criteria
                batch == calls[c].results
            IN  /\ (best.kind = "return" /\ best.value # None) =>
                      /\ \E i \in 1..Len(batch) : batch[i] = best.value[1]
                      /\ Satisfies(best.value[1], crit)
                /\ (best.kind = "return" /\ best.value = None) <=>
                      ~\E i \in 1..Len(batch) : Satisfies(batch[i], crit)

(***************************************************************************)
(* C11 and C12                                                             *)
(***************************************************************************)
\* the mean GPU utilization of a snapshot; 0 when the snapshot has no GPU
\* data
MeanGpu(server) ==
    IF "gpu_usage" \in DOMAIN server /\ server["gpu_usage"] # None
          /\ server["gpu_usage"][1] # <<>>
    THEN TrueDivide(SumSeq(server["gpu_usage"][1]), IntOf(Len(server["gpu_usage"][1]))).value
    ELSE IntOf(0)

\* cpu usage + memory usage + mean GPU utilization of a snapshot that has a
\* cpu and a memory reading
Score(server) ==
    NumAdd(NumAdd(server["cpu_usage"][1], server["memory_usage"][1]), MeanGpu(server))

\* the score of a is strictly lower than that of b
LowerScore(a, b) == NumLess(Score(a), Score(b))

\* the snapshot has the two readings the score adds up
Scorable(server) ==
    /\ "cpu_usage" \in DOMAIN server /\ server["cpu_usage"] # None
    /\ "memory_usage" \in DOMAIN server /\ server["memory_usage"] # None

\* the call c of find_best_server has returned a snapshot
Selected(c) ==
    /\ Returned(c) /\ calls[c].kind = "find_best_server"
    /\ calls[c].best.kind = "return" /\ calls[c].best.value # None

\* C11: no snapshot of the batch that passes the filters has a strictly
\* lower score (cpu + memory + mean GPU utilization, the GPU term 0 without
\* GPU data) than the snapshot find_best_server returned.
C11_MinimumScore ==
    \A c \in CallSet : Selected(c) =>
        LET best == calls[c].best.value[1]
            batch == calls[c].results
        IN  /\ Scorable(best)
            /\ \A i \in 1..Len(batch) :
                  (Satisfies(batch[i], calls[c].criteria) /\ Scorable(batch[i]))
                      => ~LowerScore(batch[i], best)

\* the scores of a and b are equal numbers
SameScore(a, b) == AtMost(Score(a), Score(b)) /\ AtMost(Score(b), Score(a))

\* C12: when the snapshot find_best_server returns shares the minimum score
\* of the passing snapshots with others, it is the first of them in the
\* batch, whatever the order in which the checks completed: no passing
\* snapshot before it has the same score.
C12_FirstOfEqualScore ==
    \A c \in CallSet : Selected(c) =>
        LET best == calls[c].best.value[1]
            batch == calls[c].results
            Passing(i) == Satisfies(batch[i], calls[c].criteria) /\ Scorable(batch[i])
        IN  (\A i \in 1..Len(batch) : Passing(i) => ~LowerScore(batch[i], best)) =>
                \E i \in 1..Len(batch) :
                    /\ batch[i] = best
                    /\ \A j \in 1..(i - 1) : Passing(j) => ~SameScore(batch[j], best)

(***************************************************************************)
(* C13                                                                     *)
(***************************************************************************)
\* the step completes the remote check of task t: its coroutine resumes
\* after the await of its job, stores and returns
Completes(t) == tasks[t].pc = "done" /\ tasks'[t].pc = "returned"

\* C13: after every step each cache entry is exactly the snapshot that one
\* finished check of that host returned; the step that completes a check
\* makes that check's snapshot the entry of its host, and a step that
\* completes no check of a host leaves the host's entry as it is: the entry
\* is the snapshot of the check that completed last.
C13_WholeSnapshotLastWriter ==
    [][ /\ \A name \in DOMAIN cache' :
              \E t \in 1..Len(tasks') :
                  /\ tasks'[t].pc = "returned" /\ ~tasks'[t].hit
                  /\ tasks'[t].server.name = name
                  /\ tasks'[t].result = Some(cache'[name])
        /\ \A t \in TaskSet :
              Completes(t) => cache'[tasks[t].server.name] = tasks'[t].result[1]
        /\ \A name \in DOMAIN cache :
              (~\E t \in TaskSet : Completes(t) /\ tasks[t].server.name = name)
                  => (name \in DOMAIN cache' /\ cache'[name] = cache[name]) ]_vars

\* two checks of one host have run; the one whose job began first found the
\* host unreachable and completed last, and its snapshot is the entry, not
\* that of the check that began last
C13_Witness ==
    \E t, u \in TaskSet :
        /\ t # u /\ tasks[t].server.name = tasks[u].server.name
        /\ Ran(t) /\ Ran(u)
        /\ tasks[t].checked_at < tasks[u].checked_at
        /\ tasks[t].result[1]["online"] = FALSE /\ tasks[u].result[1]["online"] = TRUE
        /\ cache[tasks[t].server.name] = tasks[t].result[1]

(***************************************************************************)
(* C14 and C15                                                             *)
(***************************************************************************)
\* every command the check of task t ran exited 0
AllExitZero(t) ==
    \A i \in 1..Len(tasks[t].issued) : Succeeds(tasks[t].outs[1][tasks[t].issued[i]])

\* C14: no parser fails and no GPU list is present but empty.  A check all
\* of whose commands exited 0 can only fail in a parser, so its snapshot
\* carries neither error nor gpu_error and is online; and in every snapshot
\* a GPU list is absent or has at least one entry.
C14_ParsersTotal ==
    \A t \in TaskSet : Ran(t) =>
        LET data == tasks[t].result[1]
        IN  /\ AllExitZero(t) =>
                  /\ "error" \notin DOMAIN data /\ "gpu_error" \notin DOMAIN data
                  /\ data["online"] = TRUE
            /\ \A k \in {"gpu_usage", "gpu_memory", "gpu_processes"} \cap DOMAIN data :
                  data[k] = None \/ (Len(data[k]) = 1 /\ data[k][1] # <<>>)

\* C15: when the cpu command and the memory command print the same text, the
\* snapshot has the same cpu usage and memory usage.
C15_CpuAndMemoryAgree ==
    \A t \in TaskSet :
        ( /\ Ran(t)
          /\ Succeeds(tasks[t].outs[1]["cpu_usage"])
          /\ Succeeds(tasks[t].outs[1]["memory_usage"])
          /\ tasks[t].outs[1]["cpu_usage"].stdout = tasks[t].outs[1]["memory_usage"].stdout )
        => tasks[t].result[1]["cpu_usage"] = tasks[t].result[1]["memory_usage"]

(***************************************************************************)
(* C16                                                                     *)
(***************************************************************************)
\* out is text with its leading and trailing whitespace removed
IsTrimOf(out, text) ==
    /\ out # <<>> => (out[1] \notin Whitespace /\ out[Len(out)] \notin Whitespace)
    /\ \E a \in 0..(Len(text) - Len(out)) :
          /\ \A i \in 1..Len(out) : text[a + i] = out[i]
          /\ \A i \in 1..a : text[i] \in Whitespace
          /\ \A i \in (a + Len(out) + 1)..Len(text) : text[i] \in Whitespace

\* the error kinds of _run_ssh_command, by the words that open their message
ErrorKinds ==
    {"Connection timeout to ", "Unknown host: ", "Connection refused to ",
     "Permission denied for ", "SSH error: "}

\* the message is of the given kind and of no other
HasKind(exc, kind) ==
    {k \in ErrorKinds : \E i \in 1..Len(exc) : exc[i] = k} = {kind}

\* the kind the claim assigns to a process result that is not an exit 0
ExpectedKind(proc) ==
    IF proc.kind = "timeout" THEN "Connection timeout to "
    ELSE IF Contains(proc.stderr, UnresolvedPhrase)
    THEN "Unknown host: "
    ELSE IF Contains(proc.stderr, RefusedPhrase)
    THEN "Connection refused to "
    ELSE IF Contains(proc.stderr, DeniedPhrase)
    THEN "Permission denied for "
    ELSE "SSH error: "

\* the last len elements of q
Suffix(q, len) == SubSeq(q, Len(q) - len + 1, Len(q))

\* C16: for every command a check ran, _run_ssh_command gives one result:
\* on exit 0 the trimmed output and no error, whatever the output and the
\* standard error; on a timeout the timeout error; on a non-zero exit the
\* error of the kind chosen from standard error in the order unresolved
\* hostname, refused connection, permission denied, generic, the generic one
\* ending with the trimmed standard error.  The error of the command that
\* ended the check is the one the snapshot carries.
C16_OneResultPerOutcome ==
    \A t \in TaskSet : Ran(t) =>
        \A n \in 1..Len(tasks[t].issued) :
            LET cmd == tasks[t].issued[n]
                proc == tasks[t].outs[1][cmd]
                r == _run_ssh_command(tasks[t].server, proc)
                data == tasks[t].result[1]
            IN  IF ExitedZero(proc)
                THEN r.ok /\ r.exc = <<>> /\ IsTrimOf(r.out, proc.stdout)
                ELSE IF proc.kind \in {"decode", "spawn"} THEN ~r.ok
                ELSE /\ ~r.ok
                     /\ HasKind(r.exc, ExpectedKind(proc))
                     /\ r.exc[Len(r.exc)] = tasks[t].server.host
                           \/ /\ ExpectedKind(proc) = "SSH error: "
                              /\ \E len \in 0..Len(proc.stderr) :
                                    /\ len < Len(r.exc)
                                    /\ IsTrimOf(Suffix(r.exc, len), proc.stderr)
                     /\ n = Len(tasks[t].issued)
                     /\ IF n <= 3 THEN data["error"] = r.exc ELSE data["gpu_error"] = r.exc

(***************************************************************************)
(* C17                                                                     *)
(***************************************************************************)
\* the order the claim gives the commands of a check of this host
CommandOrder(server) ==
    <<"cpu_usage", "memory_usage", "load_average">>
    \o (IF server.has_gpu THEN <<"gpu_usage", "gpu_memory">> ELSE <<>>)
    \o (IF server.has_gpu /\ config.gpu_processes THEN <<"gpu_processes">> ELSE <<>>)

\* C17: the commands a check issued are an initial part of cpu, memory, load
\* average, gpu_usage, gpu_memory, gpu_processes (the GPU commands only for
\* a GPU host, gpu_processes only when configured); only the last command
\* issued can have failed; and a GPU command was issued only after all three
\* mandatory commands succeeded.
C17_CommandsInOrder ==
    \A t \in TaskSet : Ran(t) =>
        LET issued == tasks[t].issued
            order == CommandOrder(tasks[t].server)
        IN  /\ Len(issued) >= 1 /\ Len(issued) <= Len(order)
            /\ issued = SubSeq(order, 1, Len(issued))
            /\ \A n \in 1..(Len(issued) - 1) : Succeeds(tasks[t].outs[1][issued[n]])
            /\ Len(issued) > 3 =>
                  /\ tasks[t].server.has_gpu
                  /\ \A n \in 1..3 : Succeeds(tasks[t].outs[1][order[n]])

\* on a GPU host with gpu_processes configured the gpu_memory command failed
\* and the check stopped there, although gpu_processes would have worked
C17_Witness ==
    \E t \in TaskSet :
        /\ Ran(t) /\ tasks[t].server.has_gpu /\ config.gpu_processes
        /\ ~Succeeds(tasks[t].outs[1]["gpu_memory"])
        /\ Succeeds(tasks[t].outs[1]["gpu_processes"])
        /\ tasks[t].issued =
              <<"cpu_usage", "memory_usage", "load_average", "gpu_usage", "gpu_memory">>

(***************************************************************************)
(* C18                                                                     *)
(***************************************************************************)
\* the coroutines that are at pc
At(pc) == Cardinality({t \in 1..Len(tasks) : tasks[t].pc = pc})

\* the work outstanding: the steps the coroutines have yet to take (four
\* for one that has not begun, three for one whose job is queued, two for
\* one whose job runs, one for one whose job has ended) and the calls that
\* have yet to return
Outstanding ==
    4 * At("new") + 3 * At("queued") + 2 * At("running") + At("done")
    + Cardinality({c \in 1..Len(calls) : calls[c].status = "pending"})

(***************************************************************************)
(* C19                                                                     *)
(***************************************************************************)
\* no cache write replaces an entry by a snapshot with an earlier capture
\* time
C19_NeverOlderCapture ==
    [][ \A name \in DOMAIN cache :
            name \in DOMAIN cache' =>
                cache'[name]["checked_at"] >= cache[name]["checked_at"] ]_vars

\* C19: the write of a completing check stamps the entry of its host with
\* that check's capture time, the time its job read when it began, which is
\* never later than the clock; the write lowers the capture time of the
\* entry only when the replaced entry is the snapshot of another check of
\* the same host whose job read the clock later than that of the completing
\* check and which completed before it; no other step changes the capture
\* time of an entry.
C19_LastCompletedCapture ==
    [][ /\ \A t \in TaskSet :
              Completes(t) =>
                  LET name == tasks[t].server.name
                  IN  /\ cache'[name]["checked_at"] = tasks[t].checked_at
                      /\ tasks[t].checked_at <= now
                      /\ (name \in DOMAIN cache
                            /\ cache[name]["checked_at"] > tasks[t].checked_at)
                          => \E u \in TaskSet \ {t} :
                                 /\ tasks[u].server.name = name
                                 /\ Ran(u)
                                 /\ tasks[u].result = Some(cache[name])
                                 /\ tasks[u].checked_at > tasks[t].checked_at
        /\ \A name \in DOMAIN cache :
              (~\E t \in TaskSet : Completes(t) /\ tasks[t].server.name = name)
                  => cache'[name]["checked_at"] = cache[name]["checked_at"] ]_vars

\* two checks of one host that bypass the cache overlapped: the one whose
\* job read the clock at the earlier time completed last, and the entry
\* carries its capture time, which is earlier than that of the snapshot it
\* replaced
C19_Witness ==
    \E t, u \in TaskSet :
        /\ t # u /\ tasks[t].server.name = tasks[u].server.name
        /\ ~tasks[t].use_cache /\ ~tasks[u].use_cache
        /\ Ran(t) /\ Ran(u)
        /\ cache[tasks[t].server.name]["checked_at"] = tasks[t].checked_at
        /\ tasks[t].checked_at < tasks[u].checked_at
        /\ tasks[u].checked_at <= now

(***************************************************************************)
(* C20                                                                     *)
(***************************************************************************)
\* the step is a cache hit of task t: its coroutine returns from its first
\* segment
Hits(t) == tasks[t].pc = "new" /\ tasks'[t].pc = "returned"

\* C20: a step in which check_server returns from the cache was asked with
\* use_cache and found an entry of its host younger than the ttl; it returns
\* exactly that entry, never reaches the queue or a worker, issues no
\* command, and leaves the cache, the queue, the set of busy workers and
\* every other coroutine as they were.
C20_HitHasNoEffect ==
    [][ \A t \in TaskSet :
            Hits(t) =>
                LET name == tasks[t].server.name
                IN  /\ tasks[t].use_cache
                    /\ name \in DOMAIN cache
                    /\ now - cache[name]["checked_at"] < TTL
                    /\ tasks'[t].result = Some(cache[name])
                    /\ tasks'[t].hit
                    /\ tasks'[t].issued = <<>>
                    /\ tasks'[t].outs = None
                    /\ tasks'[t].checked_at = -1
                    /\ cache' = cache
                    /\ queue' = queue
                    /\ Running' = Running
                    /\ \A u \in TaskSet \ {t} : tasks'[u] = tasks[u] ]_vars

\* a coroutine returned the fresh entry of its host while the cache held a
\* stale entry of another host and a worker was busy checking that host
C20_Witness ==
    \E t \in TaskSet :
        /\ tasks[t].hit /\ tasks[t].pc = "returned"
        /\ tasks[t].result = Some(cache[tasks[t].server.name])
        /\ \E m \in DOMAIN cache :
              /\ m # tasks[t].server.name
              /\ ~IsFresh(cache[m], now)
              /\ \E u \in Running : tasks[u].server.name = m

(***************************************************************************)
(* C21                                                                     *)
(***************************************************************************)
\* C21: a check_server coroutine called with use_cache = FALSE never returns
\* from its first segment: it leaves it queued for a worker, whatever the
\* cache holds; and the step that completes it has issued at least one
\* remote command, makes its snapshot the entry of its host and leaves the
\* entry of every other host, present or absent, as it was.
C21_BypassChecksAndOverwrites ==
    [][ \A t \in TaskSet :
            ~tasks[t].use_cache =>
                LET name == tasks[t].server.name
                IN  /\ (tasks[t].pc = "new" /\ tasks'[t].pc # "new")
                        => /\ tasks'[t].pc = "queued"
                           /\ queue' = Append(queue, t)
                           /\ ~tasks'[t].hit
                    /\ Completes(t)
                        => /\ tasks'[t].issued # <<>>
                           /\ tasks'[t].issued[1] = MandatoryCommands[1]
                           /\ name \in DOMAIN cache'
                           /\ cache'[name] = tasks'[t].result[1]
                           /\ DOMAIN cache' = DOMAIN cache \cup {name}
                           /\ \A m \in DOMAIN cache \ {name} : cache'[m] = cache[m] ]_vars

\* a coroutine called with use_cache = FALSE started while the entry of its
\* host was fresh, ran its check, and its snapshot replaced a different one
\* (of an earlier check of that host) while another host had an entry
C21_Witness ==
    \E t, u \in TaskSet :
        /\ ~tasks[t].use_cache /\ Ran(t)
        /\ tasks[t].seenAt >= 0 /\ tasks[t].readAt - tasks[t].seenAt < TTL
        /\ u # t /\ Ran(u) /\ tasks[u].server.name = tasks[t].server.name
        /\ tasks[u].result # tasks[t].result
        /\ cache[tasks[t].server.name] = tasks[t].result[1]
        /\ \E m \in DOMAIN cache : m # tasks[t].server.name

(***************************************************************************)
(* C22                                                                     *)
(***************************************************************************)
\* the snapshot d of a check of server is well formed
WellFormed(d, server) ==
    /\ "online" \in DOMAIN d
    /\ d["online"] \in BOOLEAN
    /\ d["online"] = FALSE <=> "error" \in DOMAIN d
    /\ d["has_gpu"] = server.has_gpu
    /\ "gpu_error" \in DOMAIN d => (d["online"] /\ server.has_gpu)
    /\ ~server.has_gpu => DOMAIN d \cap GpuKeys = {}

\* C22: every snapshot that a check_server coroutine returned, that a call
\* returned or that the cache holds has its online flag set, has the error
\* field exactly when online is FALSE, has gpu_error only when online is
\* TRUE and the host is GPU-capable, and has none of gpu_usage, gpu_memory,
\* gpu_processes and gpu_error when the host is not GPU-capable.
C22_SnapshotsWellFormed ==
    /\ \A t \in TaskSet :
           tasks[t].result # None => WellFormed(tasks[t].result[1], tasks[t].server)
    /\ \A c \in CallSet :
           Returned(c) =>
               \A i \in 1..Len(calls[c].results) :
                   WellFormed(calls[c].results[i], calls[c].servers[i])
    /\ \A t \in TaskSet :
           tasks[t].server.name \in DOMAIN cache =>
               WellFormed(cache[tasks[t].server.name], tasks[t].server)

\* the check of a GPU-capable host whose mandatory commands succeeded and
\* whose GPU stage failed has returned: its snapshot has gpu_error and some
\* GPU field besides, and is the entry of the host
C22_Witness ==
    \E t \in TaskSet :
        /\ Ran(t) /\ tasks[t].server.has_gpu
        /\ "gpu_error" \in DOMAIN tasks[t].result[1]
        /\ "gpu_usage" \in DOMAIN tasks[t].result[1]
        /\ cache[tasks[t].server.name] = tasks[t].result[1]
        /\ Returned(tasks[t].call)

(***************************************************************************)
(* C23                                                                     *)
(***************************************************************************)
\* the names of the configured hosts
HostNames == {config.servers[i].name : i \in 1..Len(config.servers)}

\* C23: the cache is keyed by the names of configured hosts, one entry per
\* name, and holds an entry only for a host of which some check has
\* completed.  A step that removes an entry is a clear_cache: it removes
\* every entry and touches nothing else.  An entry appears only in the step
\* that completes a check of its host.  A check_server coroutine that starts
\* while its host has no entry, use_cache or not, is queued for a worker and
\* does not return from the cache.
C23_ClearedUntilChecked ==
    /\ [](/\ DOMAIN cache \subseteq HostNames
          /\ Cardinality(DOMAIN cache) <= Len(config.servers)
          /\ \A name \in DOMAIN cache :
                \E t \in TaskSet : Ran(t) /\ tasks[t].server.name = name)
    /\ [][
          /\ (\E name \in DOMAIN cache : name \notin DOMAIN cache')
                => (cache' = <<>> /\ UNCHANGED <<config, now, tasks, calls, queue>>)
          /\ \A name \in DOMAIN cache' \ DOMAIN cache :
                \E t \in TaskSet : Completes(t) /\ tasks[t].server.name = name
          /\ \A t \in TaskSet :
                (/\ tasks[t].pc = "new" /\ tasks'[t].pc # "new"
                 /\ tasks[t].server.name \notin DOMAIN cache)
                => /\ tasks'[t].pc = "queued"
                   /\ ~tasks'[t].hit
                   /\ queue' = Append(queue, t)
       ]_vars

\* the checks of both hosts completed and the cache was cleared; a later
\* coroutine with use_cache found no entry of its host, although the clock
\* has not moved since that host was checked, and waits for a worker
C23_Witness ==
    /\ cache = <<>>
    /\ \A name \in HostNames : \E u \in TaskSet : Ran(u) /\ tasks[u].server.name = name
    /\ \E t, u \in TaskSet :
          /\ tasks[t].call > tasks[u].call
          /\ tasks[t].server.name = tasks[u].server.name
          /\ Ran(u) /\ tasks[u].checked_at = now
          /\ tasks[t].use_cache /\ tasks[t].pc = "queued" /\ tasks[t].seenAt = -1

====
